---- MODULE Spec2Model ----
(***************************************************************************)
(* A model of the command-dispatch layer of ultra-bot:                     *)
(*   - FunEngine                (src/src/utils/delay.js, lines 15-245)     *)
(*   - the per-type fun modules (src/unnamed/part_000, part_001) driven by *)
(*     the startfun / stopfun commands (src/src/commands/admin)            *)
(*   - RateLimiter              (src/src/utils/rateLimiter.js)             *)
(*   - CommandProcessor         (src/src/middleware/commandProcessor.js)   *)
(*   - guard                    (src/src/secure/guard.js)                  *)
(*                                                                         *)
(* JavaScript runs one callback at a time; an async function is cut at     *)
(* its awaits.  Every action below is one synchronous stretch of code:     *)
(* from a call or the resumption of an await up to the next await or the   *)
(* return.  Timers are objects with a "live" flag: setInterval creates a   *)
(* live timer, clearInterval clears the flag, a live timer may fire.       *)
(* Time is Date.now() in milliseconds, observed at a few instants.         *)
(***************************************************************************)
EXTENDS Integers, Sequences, FiniteSets, TLC

(* ---- bounds of the model ---- *)
MaxLoops == 2
MaxInflight == 2
MaxSends == 2
MaxAdvances == 2
MaxWindows == 2
MaxCommands == 2
MaxPipeWindows == 1
MaxLimit == 2
MaxSweeps == 2
MaxStatusSends == 16
TemplateCount == 3

(* ---- program constants ---- *)
ExpiryMs == 300000
WindowMs == 60000
UserLimit == 30
ThreadLimit == 50
FunLimit == 5
AdminLimit == 20
CacheTtlMs == 60000
CleanupAgeMs == 3600000

(* ---- the environment ---- *)
Threads == {"t1", "t2"}
Starters == {"owner1", "admin1"}
FunStarters == {"admin1"}
NoStop == [thread |-> "none", at |-> "idle"]
LoopIds == 1..MaxLoops
NoLoop == 0
NoFun == [type |-> "none"]
NoTemplate == 0 - 1
NoNotice == [thread |-> "none", kind |-> "none", template |-> NoTemplate]

VARIABLES
  now,          \* Date.now()
  notice,       \* the notice handed to api.sendMessage by the last step, if any
  late,         \* history: threads that were sent a loop message by a loop that stop had stopped
  activeFuns,   \* FunEngine.activeFuns: thread -> state, or NoFun
  eLoops,       \* FunEngine: the closures made by startFun (timer, currentIndex, ticks in flight)
  result,       \* what the call made by the last step returned, if it made one
  funThreads,   \* bot.funThreads: thread -> state object, or NoLoop
  fObj,         \* the state objects made by the fun modules
  fLoops,       \* the closures of the fun modules' execute (timer, timeout, iteration, ticks)
  fStop,        \* the stopfun command in flight, if any
  funActive,    \* bot.funActive
  limits,       \* RateLimiter.limits: key -> the timestamps recorded for it
  ctx,          \* CommandProcessor.process: the context of the invocation in flight
  cache,        \* the result cache: the entries set by executeCommand
  audit,        \* the commands recorded by stats.recordCommand since the start
  served,       \* the invocations handed to process since the start
  invoked,      \* the handler call made by the last step, if it made one
  configAdmins, \* config.admins: the ids of the admins, in the order they were added
  configFile    \* the admins of config/config.json as last written or loaded

vars == <<now, notice, late, activeFuns, eLoops, result,
          funThreads, fObj, fLoops, fStop, funActive,
          limits, ctx, cache, audit, served, invoked, configAdmins,
          configFile>>
engineVars == <<activeFuns, eLoops>>
funVars == <<funThreads, fObj, fLoops, fStop, funActive>>
pipeVars == <<limits, ctx, cache, audit, served, invoked>>

(***************************************************************************)
(* FunEngine                                                               *)
(***************************************************************************)

\* this.funTemplates after loadTemplates: the number of lines of each loaded
\* type; a type with no file has no entry.
funTemplates ==
  [ft \in {"murgi", "empty"} |->
     IF ft = "empty" THEN 0 ELSE TemplateCount]

EngineTypes == DOMAIN funTemplates \cup {"nosuch"}

\* A closure of startFun: its timer (status), the thread and lines it closes
\* over, currentIndex, the callbacks suspended at an await, and (history) the
\* number of lines it handed to api.sendMessage.  A closure no code can reach
\* any more (timer cleared, no callback in flight) is "dead".
FreeLoop == [status |-> "free", thread |-> "none", lines |-> 0, currentIndex |-> 0,
             ticks |-> <<>>, sent |-> 0]
DeadLoop == [FreeLoop EXCEPT !.status = "dead"]

NoResult == [op |-> "none", thread |-> "none", key |-> "none", limit |-> 0,
             success |-> FALSE,
             code |-> "none", duration |-> 0, messagesSent |-> 0, count |-> 0,
             lock |-> "none", notified |-> {}]

NextFree(loops) ==
  IF \E L \in LoopIds : loops[L].status = "free"
  THEN CHOOSE L \in LoopIds : loops[L].status = "free"
                               /\ \A K \in LoopIds : K < L => loops[K].status # "free"
  ELSE NoLoop

RemoveAt(s, i) == SubSeq(s, 1, i - 1) \o SubSeq(s, i + 1, Len(s))

RECURSIVE SumOver(_, _)
SumOver(f, S) ==
  IF S = {} THEN 0
  ELSE LET x == CHOOSE y \in S : TRUE IN f[x] + SumOver(f, S \ {x})

TotalInflight(loops) == SumOver([L \in LoopIds |-> Len(loops[L].ticks)], LoopIds)

\* Closures that nothing references any more are collected.
Collect(loops) ==
  [L \in LoopIds |->
     IF loops[L].status \in {"stopped", "cleared"} /\ loops[L].ticks = <<>>
     THEN DeadLoop ELSE loops[L]]

\* startFun(api, threadId, funType, userId): no await inside, so one step.
startFun_NoCheck(c, ft, u) ==
  LET L == NextFree(eLoops) IN
  /\ IF ft \notin DOMAIN funTemplates
     THEN /\ result' = [NoResult EXCEPT !.op = "startFun", !.thread = c, !.key = ft, !.code = "unknownType"]
          /\ UNCHANGED <<activeFuns, eLoops>>
     ELSE IF funTemplates[ft] = 0
     THEN /\ result' = [NoResult EXCEPT !.op = "startFun", !.thread = c, !.key = ft, !.code = "noLines"]
          /\ UNCHANGED <<activeFuns, eLoops>>
     ELSE /\ L # NoLoop
          /\ eLoops' = [eLoops EXCEPT ![L] = [FreeLoop EXCEPT !.status = "live", !.thread = c,
                                                        !.lines = funTemplates[ft]]]
          /\ activeFuns' = [activeFuns EXCEPT ![c] =
                              [type |-> ft, interval |-> L, index |-> 0, userId |-> u,
                               startTime |-> now, messageCount |-> 0]]
          /\ result' = [NoResult EXCEPT !.op = "startFun", !.thread = c, !.key = ft,
                                         !.success = TRUE, !.code = "started"]
  /\ notice' = NoNotice
  /\ UNCHANGED <<now, late, configAdmins, configFile, funVars, pipeVars>>

startFun_NoLinesCheck(c, ft, u) ==
  LET L == NextFree(eLoops) IN
  /\ IF activeFuns[c] # NoFun
     THEN /\ result' = [NoResult EXCEPT !.op = "startFun", !.thread = c, !.key = ft, !.code = "alreadyRunning"]
          /\ UNCHANGED <<activeFuns, eLoops>>
     ELSE IF ft \notin DOMAIN funTemplates
     THEN /\ result' = [NoResult EXCEPT !.op = "startFun", !.thread = c, !.key = ft, !.code = "unknownType"]
          /\ UNCHANGED <<activeFuns, eLoops>>
     ELSE /\ L # NoLoop
          /\ eLoops' = [eLoops EXCEPT ![L] = [FreeLoop EXCEPT !.status = "live", !.thread = c,
                                                        !.lines = funTemplates[ft]]]
          /\ activeFuns' = [activeFuns EXCEPT ![c] =
                              [type |-> ft, interval |-> L, index |-> 0, userId |-> u,
                               startTime |-> now, messageCount |-> 0]]
          /\ result' = [NoResult EXCEPT !.op = "startFun", !.thread = c, !.key = ft,
                                         !.success = TRUE, !.code = "started"]
  /\ notice' = NoNotice
  /\ UNCHANGED <<now, late, configAdmins, configFile, funVars, pipeVars>>

startFun(c, ft, u) ==
  LET L == NextFree(eLoops) IN
  /\ IF activeFuns[c] # NoFun
     THEN /\ result' = [NoResult EXCEPT !.op = "startFun", !.thread = c, !.key = ft, !.code = "alreadyRunning"]
          /\ UNCHANGED <<activeFuns, eLoops>>
     ELSE IF ft \notin DOMAIN funTemplates
     THEN /\ result' = [NoResult EXCEPT !.op = "startFun", !.thread = c, !.key = ft, !.code = "unknownType"]
          /\ UNCHANGED <<activeFuns, eLoops>>
     ELSE IF funTemplates[ft] = 0
     THEN /\ result' = [NoResult EXCEPT !.op = "startFun", !.thread = c, !.key = ft, !.code = "noLines"]
          /\ UNCHANGED <<activeFuns, eLoops>>
     ELSE /\ L # NoLoop
          /\ eLoops' = [eLoops EXCEPT ![L] = [FreeLoop EXCEPT !.status = "live", !.thread = c,
                                                        !.lines = funTemplates[ft]]]
          /\ activeFuns' = [activeFuns EXCEPT ![c] =
                              [type |-> ft, interval |-> L, index |-> 0, userId |-> u,
                               startTime |-> now, messageCount |-> 0]]
          /\ result' = [NoResult EXCEPT !.op = "startFun", !.thread = c, !.key = ft,
                                         !.success = TRUE, !.code = "started"]
  /\ notice' = NoNotice
  /\ UNCHANGED <<now, late, configAdmins, configFile, funVars, pipeVars>>

\* clearInterval(handle): the timer fires no more; currentIndex is read only
\* when the timer fires.
\* The status keeps how it was cleared: "stopped" by stopFun, "cleared" by
\* stopAllFuns.
ClearInterval_Leak(loops, L, how) == loops

ClearInterval(loops, L, how) ==
  IF L \in LoopIds /\ loops[L].status = "live"
  THEN [loops EXCEPT ![L].status = how, ![L].currentIndex = 0, ![L].sent = 0]
  ELSE loops

MsPerSecond == 1000

\* Math.round(x / unit): the nearest integer, halves upwards.
Round(x, unit) == (2 * x + unit) \div (2 * unit)

\* The body of stopFun(threadId) on the tables (af, loops): the new tables and
\* the returned object.
StopFunOn_Blind(af, loops, c) ==
  IF af[c] = NoFun
  THEN [af |-> af, loops |-> [L \in LoopIds |-> DeadLoop],
        ret |-> [NoResult EXCEPT !.op = "stopFun", !.thread = c, !.code = "noActiveFun"]]
  ELSE [af |-> [af EXCEPT ![c] = NoFun],
        loops |-> [L \in LoopIds |-> DeadLoop],
        ret |-> [NoResult EXCEPT !.op = "stopFun", !.thread = c, !.success = TRUE,
                                 !.code = "stopped",
                                 !.duration = Round(now - af[c].startTime, MsPerSecond),
                                 !.messagesSent = af[c].messageCount]]

StopFunOn(af, loops, c) ==
  IF af[c] = NoFun
  THEN [af |-> af, loops |-> loops,
        ret |-> [NoResult EXCEPT !.op = "stopFun", !.thread = c, !.code = "noActiveFun"]]
  ELSE [af |-> [af EXCEPT ![c] = NoFun],
        loops |-> ClearInterval(loops, af[c].interval, "stopped"),
        ret |-> [NoResult EXCEPT !.op = "stopFun", !.thread = c, !.success = TRUE,
                                 !.code = "stopped",
                                 !.duration = Round(now - af[c].startTime, MsPerSecond),
                                 !.messagesSent = af[c].messageCount]]

stopFun(c) ==
  LET r == StopFunOn(activeFuns, eLoops, c) IN
  /\ activeFuns' = r.af
  /\ eLoops' = Collect(r.loops)
  /\ result' = r.ret
  /\ notice' = NoNotice
  /\ UNCHANGED <<now, late, configAdmins, configFile, funVars, pipeVars>>

RECURSIVE ClearAll(_, _)
ClearAll(loops, S) ==
  IF S = {} THEN loops
  ELSE LET L == CHOOSE x \in S : TRUE IN ClearAll(ClearInterval(loops, L, "cleared"), S \ {L})

stopAllFuns ==
  LET running == {c \in Threads : activeFuns[c] # NoFun} IN
  /\ eLoops' = Collect(ClearAll(eLoops, {activeFuns[c].interval : c \in running}))
  /\ activeFuns' = [c \in Threads |-> NoFun]
  /\ result' = [NoResult EXCEPT !.op = "stopAllFuns", !.success = TRUE,
                                 !.count = Cardinality(running)]
  /\ notice' = NoNotice
  /\ UNCHANGED <<now, late, configAdmins, configFile, funVars, pipeVars>>

\* The setInterval callback of loop L fires: the code up to the first await
\* (api.sendTypingIndicator).  The callback holds the line it picked.
engineTick(L) ==
  /\ eLoops[L].status = "live"
  /\ TotalInflight(eLoops) < MaxInflight
  /\ eLoops[L].sent + Len(eLoops[L].ticks) < MaxSends
  /\ LET n == eLoops[L].lines
         idx == IF eLoops[L].currentIndex >= n THEN 0 ELSE eLoops[L].currentIndex
     IN eLoops' = [eLoops EXCEPT ![L].currentIndex = idx + 1,
                                 ![L].ticks = Append(@, [pc |-> "typing", line |-> idx])]
  /\ result' = NoResult
  /\ notice' = NoNotice
  /\ UNCHANGED <<now, late, configAdmins, configFile, activeFuns, funVars, pipeVars>>

\* sendTypingIndicator and delay(200..400) are over: api.sendMessage(line, threadId).
engineTypingDone(L, i) ==
  /\ i \in 1..Len(eLoops[L].ticks)
  /\ eLoops[L].ticks[i].pc = "typing"
  /\ eLoops' = [eLoops EXCEPT ![L].ticks[i].pc = "send",
                              ![L].sent = IF eLoops[L].status = "live" THEN @ + 1 ELSE @]
  /\ late' = IF eLoops[L].status = "stopped" THEN late \cup {eLoops[L].thread} ELSE late
  /\ result' = NoResult
  /\ notice' = NoNotice
  /\ UNCHANGED <<now, configAdmins, configFile, activeFuns, funVars, pipeVars>>

\* api.sendMessage resolved; stats.recordFunUsage; the callback returns.
engineSendDone(L, i) ==
  /\ i \in 1..Len(eLoops[L].ticks)
  /\ eLoops[L].ticks[i].pc = "send"
  /\ eLoops' = Collect([eLoops EXCEPT ![L].ticks = RemoveAt(@, i)])
  /\ result' = NoResult
  /\ notice' = NoNotice
  /\ UNCHANGED <<now, late, configAdmins, configFile, activeFuns, funVars, pipeVars>>

\* An await of the callback rejected (typing indicator or send): the catch
\* block calls this.stopFun(threadId) and sends the error notice.
engineTickFail(L, i) ==
  /\ i \in 1..Len(eLoops[L].ticks)
  /\ LET c == eLoops[L].thread
         dropped == [eLoops EXCEPT ![L].ticks = RemoveAt(@, i)]
         r == StopFunOn(activeFuns, dropped, c)
     IN /\ activeFuns' = r.af
        /\ eLoops' = Collect(r.loops)
        /\ notice' = [thread |-> c, kind |-> "error", template |-> NoTemplate]
  /\ result' = NoResult
  /\ UNCHANGED <<now, late, configAdmins, configFile, funVars, pipeVars>>

(***************************************************************************)
(* The per-type fun modules (murgi, cow, abal, goat, senior: the same code *)
(* up to the type name, the emojis and the status period) and the startfun *)
(* and stopfun commands that drive them.                                   *)
(***************************************************************************)

FunTypes == {"murgi", "goat"}

\* "Every 15 messages" (murgi), "iteration % 18" (goat).
StatusEvery == [murgi |-> 15, goat |-> 18]

\* The number of messages in data/fun-json/<type>.json.
funData == [t \in FunTypes |-> TemplateCount]

NoObj == [type |-> "none", index |-> 0, interval |-> NoLoop, active |-> FALSE,
          userID |-> "none"]
NoTicks == [send |-> 0, sleep |-> 0, status |-> 0]

\* One call of startfun.execute and of the module's execute it leads to:
\*   pc         where the call is suspended ("prep": the awaits between the
\*              funThreads.has check of startfun and the module's own check;
\*              "announce": the module's await of its starting message;
\*              "armed": the timers are set; "done": it ended without timers)
\*   ref        the object its variable funThread holds
\*   timer      its setInterval timer: none, live, orphan (live, handle stored
\*              nowhere), stopped (cleared by the module's stop) or cleared
\*   iteration  its variable iteration
\*   ticks      its interval callbacks in flight, counted by the await they are at
\*   expiry     its setTimeout: none, pending, or over
\*   left       the time left until a pending setTimeout is due
\*   statuses   history: the status messages its callbacks have sent
\* A closure whose timers are over and that has no callback in flight is
\* unreachable (DoneFun), and so is an object that neither the table nor a
\* closure holds (NoObj).
FreeFun == [pc |-> "free", thread |-> "none", type |-> "none", user |-> "none",
            ref |-> NoLoop, timer |-> "none", iteration |-> 0, ticks |-> NoTicks,
            expiry |-> "none", left |-> 0, statuses |-> 0]
DoneFun == [FreeFun EXCEPT !.pc = "done"]

NextFreeFun(loops) ==
  IF \E L \in LoopIds : loops[L].pc = "free"
  THEN CHOOSE L \in LoopIds : loops[L].pc = "free"
                               /\ \A K \in LoopIds : K < L => loops[K].pc # "free"
  ELSE NoLoop

TicksOf(l) == l.ticks.send + l.ticks.sleep + l.ticks.status
FunInflight(loops) == SumOver([L \in LoopIds |-> TicksOf(loops[L])], LoopIds)

\* clearInterval(handle), remembering what cleared it.
ClearTimer(loops, T, how) ==
  IF T \in LoopIds /\ loops[T].timer = "live"
  THEN [loops EXCEPT ![T].timer = how]
  ELSE loops

Quiet(l) ==
  /\ l.pc = "armed" /\ l.timer # "live" /\ l.ticks = NoTicks /\ l.expiry # "pending"

TidyLoops(loops) ==
  [L \in LoopIds |->
     IF Quiet(loops[L]) THEN DoneFun ELSE loops[L]]

TidyObjs(objs, loops, table) ==
  [o \in LoopIds |->
     IF (\E c \in Threads : table[c] = o) \/ (\E L \in LoopIds : loops[L].ref = o)
     THEN objs[o] ELSE NoObj]

\* The line of a tick: funData[funThread.index % funData.length].
Message(c, type, index) ==
  [thread |-> c, kind |-> "message", template |-> index % funData[type]]

Reply(c, kind) == [thread |-> c, kind |-> kind, template |-> NoTemplate]

\* startfun.execute(api, threadID, funType, bot, senderID), up to its first
\* await.  The data files of the known types exist and are not empty.
startfun_execute_NoCheck(c, ft, u) ==
  LET L == NextFreeFun(fLoops) IN
  /\ IF ft \notin FunTypes
     THEN /\ notice' = NoNotice
          /\ UNCHANGED fLoops
     ELSE /\ L # NoLoop
          /\ fLoops' = [fLoops EXCEPT ![L] =
                          [FreeFun EXCEPT !.pc = "prep", !.thread = c, !.type = ft, !.user = u]]
          /\ notice' = NoNotice
  /\ result' = NoResult
  /\ UNCHANGED <<now, late, configAdmins, configFile, engineVars, pipeVars, funThreads, fObj, fStop, funActive>>

startfun_execute(c, ft, u) ==
  LET L == NextFreeFun(fLoops) IN
  /\ IF funThreads[c] # NoLoop
     THEN /\ notice' = Reply(c, "alreadyActive")
          /\ UNCHANGED fLoops
     ELSE IF ft \notin FunTypes
     THEN /\ notice' = NoNotice
          /\ UNCHANGED fLoops
     ELSE /\ L # NoLoop
          /\ fLoops' = [fLoops EXCEPT ![L] =
                          [FreeFun EXCEPT !.pc = "prep", !.thread = c, !.type = ft, !.user = u]]
          /\ notice' = NoNotice
  /\ result' = NoResult
  /\ UNCHANGED <<now, late, configAdmins, configFile, engineVars, pipeVars, funThreads, fObj, fStop, funActive>>

\* An await of startfun.execute, or the module's await of its starting
\* message, rejects: the catch of startfun.execute replies with the error.
\* A state the module had already put in the table stays there.
startfun_fail(L) ==
  /\ fLoops[L].pc \in {"prep", "announce"}
  /\ fLoops' = [fLoops EXCEPT ![L] = DoneFun]
  /\ notice' = NoNotice
  /\ result' = NoResult
  /\ UNCHANGED <<now, late, configAdmins, configFile, engineVars, pipeVars, funThreads, fObj, fStop, funActive>>

\* The module's execute after fs.readJson: "if (!bot.funThreads.has(threadID))
\* bot.funThreads.set(...)", then it awaits its starting message.
execute_create(L) ==
  LET c == fLoops[L].thread IN
  /\ fLoops[L].pc = "prep"
  /\ IF funThreads[c] = NoLoop
     THEN /\ funThreads' = [funThreads EXCEPT ![c] = L]
          /\ fObj' = [fObj EXCEPT ![L] = [type |-> fLoops[L].type, index |-> 0,
                                          interval |-> NoLoop, active |-> TRUE,
                                          userID |-> fLoops[L].user]]
     ELSE UNCHANGED <<funThreads, fObj>>
  /\ fLoops' = [fLoops EXCEPT ![L].pc = "announce"]
  /\ result' = NoResult
  /\ notice' = NoNotice
  /\ UNCHANGED <<now, late, configAdmins, configFile, engineVars, pipeVars, fStop, funActive>>

\* "const funThread = bot.funThreads.get(threadID)", then
\* "funThread.interval = setInterval(...)" and the setTimeout; back in
\* startfun.execute, bot.funActive = true.  If the table has no state any
\* more, funThread is undefined and the assignment throws, before or after
\* setInterval was evaluated depending on the engine.
execute_arm(L) ==
  LET c == fLoops[L].thread
      o == funThreads[c]
  IN
  /\ fLoops[L].pc = "announce"
  /\ IF o = NoLoop
     THEN /\ \E made \in BOOLEAN :
               fLoops' = [fLoops EXCEPT ![L] =
                            [DoneFun EXCEPT !.thread = IF made THEN c ELSE "none",
                                            !.timer = IF made THEN "orphan" ELSE "none"]]
          /\ notice' = NoNotice
          /\ UNCHANGED <<fObj, funActive>>
     ELSE /\ fObj' = [fObj EXCEPT ![o].interval = L]
          /\ fLoops' = [fLoops EXCEPT ![L].pc = "armed", ![L].ref = o, ![L].timer = "live",
                                      ![L].expiry = "pending",
                                      ![L].left = ExpiryMs]
          /\ funActive' = TRUE
          /\ notice' = NoNotice
  /\ result' = NoResult
  /\ UNCHANGED <<now, late, configAdmins, configFile, engineVars, pipeVars, funThreads, fStop>>

\* The setInterval callback of closure L fires: the liveness test, then
\* api.sendMessage(finalMessage, threadID), which it awaits.
fun_tick(L, bound) ==
  LET o == fLoops[L].ref IN
  /\ fLoops[L].timer = "live"
  /\ FunInflight(fLoops) < MaxInflight
  /\ fObj[o].index + TicksOf(fLoops[L]) < bound
  /\ IF ~fObj[o].active
     THEN /\ fLoops' = TidyLoops(ClearTimer(fLoops, fObj[o].interval, "cleared"))
          /\ notice' = NoNotice
     ELSE /\ fLoops' = [fLoops EXCEPT ![L].ticks.send = @ + 1]
          /\ notice' = Message(fLoops[L].thread, fLoops[L].type, fObj[o].index)
  /\ result' = NoResult
  /\ UNCHANGED <<now, late, configAdmins, configFile, engineVars, pipeVars, funThreads, fObj, fStop, funActive>>

\* The send resolved: funThread.index++, iteration++, then the callback
\* awaits delay.funDelay and delay.sleep.
fun_tick_sent(L) ==
  /\ fLoops[L].ticks.send > 0
  /\ fObj' = [fObj EXCEPT ![fLoops[L].ref].index = @ + 1]
  /\ fLoops' = [fLoops EXCEPT ![L].iteration = @ + 1,
                              ![L].ticks.send = @ - 1,
                              ![L].ticks.sleep = @ + 1]
  /\ result' = NoResult
  /\ notice' = NoNotice
  /\ UNCHANGED <<now, late, configAdmins, configFile, engineVars, pipeVars, funThreads, fStop, funActive>>

\* The sleep is over: every StatusEvery-th iteration sends the status message.
fun_tick_slept(L) ==
  /\ fLoops[L].ticks.sleep > 0
  /\ IF fLoops[L].iteration % StatusEvery[fLoops[L].type] = 0
     THEN /\ fLoops' = [fLoops EXCEPT ![L].ticks.sleep = @ - 1, ![L].ticks.status = @ + 1,
                                     ![L].statuses = @ + 1]
          /\ late' = IF fLoops[L].timer = "stopped" THEN late \cup {fLoops[L].thread} ELSE late
          /\ UNCHANGED fObj
     ELSE /\ LET loops == TidyLoops([fLoops EXCEPT ![L].ticks.sleep = @ - 1]) IN
               /\ fLoops' = loops
               /\ fObj' = TidyObjs(fObj, loops, funThreads)
          /\ UNCHANGED late
  /\ result' = NoResult
  /\ notice' = NoNotice
  /\ UNCHANGED <<now, configAdmins, configFile, engineVars, pipeVars, funThreads, fStop, funActive>>

\* The status message and delay.humanDelay are over: the callback returns.
fun_tick_status_sent(L) ==
  /\ fLoops[L].ticks.status > 0
  /\ LET loops == TidyLoops([fLoops EXCEPT ![L].ticks.status = @ - 1]) IN
       /\ fLoops' = loops
       /\ fObj' = TidyObjs(fObj, loops, funThreads)
  /\ result' = NoResult
  /\ notice' = NoNotice
  /\ UNCHANGED <<now, late, configAdmins, configFile, engineVars, pipeVars, funThreads, fStop, funActive>>

\* The catch of the callback, entered from a send that rejected:
\* clearInterval(funThread.interval); bot.funThreads.delete(threadID).
TickCatch(L, p) ==
  LET c == fLoops[L].thread
      dropped == [fLoops EXCEPT ![L].ticks[p] = @ - 1]
      loops == TidyLoops(ClearTimer(dropped, fObj[fLoops[L].ref].interval, "cleared"))
      table == [funThreads EXCEPT ![c] = NoLoop]
  IN [loops |-> loops, table |-> table, objs |-> TidyObjs(fObj, loops, table)]

fun_tick_fail(L, p) ==
  /\ fLoops[L].ticks[p] > 0
  /\ LET r == TickCatch(L, p) IN
       /\ fLoops' = r.loops
       /\ funThreads' = r.table
       /\ fObj' = r.objs
  /\ result' = NoResult
  /\ notice' = NoNotice
  /\ UNCHANGED <<now, late, configAdmins, configFile, engineVars, pipeVars, fStop, funActive>>

\* The setTimeout callback of closure L, 5 minutes after execute_arm.
AutoStop(L) ==
  LET c == fLoops[L].thread
      o == fLoops[L].ref
  IN IF fObj[o].active
     THEN LET fired == [fLoops EXCEPT ![L].expiry = "over"]
              loops == TidyLoops(ClearTimer(fired, fObj[o].interval, "cleared"))
              table == [funThreads EXCEPT ![c] = NoLoop]
          IN [loops |-> loops, table |-> table, objs |-> TidyObjs(fObj, loops, table),
              notice |-> Reply(c, "expired")]
     ELSE LET loops == TidyLoops([fLoops EXCEPT ![L].expiry = "over"])
          IN [loops |-> loops, table |-> funThreads,
              objs |-> TidyObjs(fObj, loops, funThreads), notice |-> NoNotice]

fun_expiry(L) ==
  /\ fLoops[L].expiry = "pending"
  /\ fLoops[L].left = 0
  /\ LET r == AutoStop(L) IN
       /\ fLoops' = r.loops
       /\ funThreads' = r.table
       /\ fObj' = r.objs
       /\ notice' = r.notice
  /\ result' = NoResult
  /\ UNCHANGED <<now, late, configAdmins, configFile, engineVars, pipeVars, fStop, funActive>>

\* stopfun.execute(api, threadID, bot, senderID), up to its first await: it
\* reads the type of the state in the table.  One stopfun command is in
\* flight at a time.
stopfun_execute(c) ==
  /\ fStop = NoStop
  /\ IF funThreads[c] = NoLoop
     THEN /\ notice' = Reply(c, "noActiveFun")
          /\ UNCHANGED fStop
     ELSE /\ fStop' = [thread |-> c, at |-> fObj[funThreads[c]].type]
          /\ notice' = NoNotice
  /\ result' = NoResult
  /\ UNCHANGED <<now, late, configAdmins, configFile, engineVars, pipeVars, funThreads, fObj, fLoops, funActive>>

\* The module's stop(threadID, bot) on the tables.
ModuleStop(c, type) ==
  LET o == funThreads[c] IN
  IF o # NoLoop /\ fObj[o].type = type
  THEN LET loops == TidyLoops(ClearTimer(fLoops, fObj[o].interval, "stopped"))
           table == [funThreads EXCEPT ![c] = NoLoop]
       IN [stopped |-> TRUE, loops |-> loops, table |-> table,
           objs |-> TidyObjs(fObj, loops, table)]
  ELSE [stopped |-> FALSE, loops |-> fLoops, table |-> funThreads, objs |-> fObj]

\* stopfun.execute after getUserInfo, the stopping message and humanDelay: it
\* calls the stop of the module of the type it read, then awaits its reply.
stopfun_stop(c) ==
  /\ fStop.thread = c
  /\ fStop.at \in FunTypes
  /\ LET r == ModuleStop(c, fStop.at) IN
       /\ fLoops' = r.loops
       /\ funThreads' = r.table
       /\ fObj' = r.objs
       /\ result' = [NoResult EXCEPT !.op = "stop", !.thread = c, !.success = r.stopped,
                                     !.code = IF r.stopped THEN "stopped" ELSE "notStopped"]
       /\ fStop' = IF r.stopped THEN [thread |-> c, at |-> "confirm"] ELSE NoStop
       /\ notice' = IF r.stopped THEN NoNotice ELSE Reply(c, "stopFailed")
  /\ UNCHANGED <<now, late, configAdmins, configFile, engineVars, pipeVars, funActive>>

\* The success message was sent: "if (bot.funThreads.size === 0) bot.funActive = false".
stopfun_confirmed(c) ==
  /\ fStop = [thread |-> c, at |-> "confirm"]
  /\ funActive' = IF \A d \in Threads : funThreads[d] = NoLoop THEN FALSE ELSE funActive
  /\ fStop' = NoStop
  /\ result' = NoResult
  /\ notice' = NoNotice
  /\ UNCHANGED <<now, late, configAdmins, configFile, engineVars, pipeVars, funThreads, fObj, fLoops>>

\* An await of stopfun.execute rejects: its catch replies with the error.
stopfun_fail(c) ==
  /\ fStop.thread = c
  /\ fStop' = NoStop
  /\ result' = NoResult
  /\ notice' = NoNotice
  /\ UNCHANGED <<now, late, configAdmins, configFile, engineVars, pipeVars, funThreads, fObj, fLoops, funActive>>

\* stopfun.stopAllFun(bot)
RECURSIVE ClearTimers(_, _, _)
ClearTimers(loops, S, how) ==
  IF S = {} THEN loops
  ELSE LET T == CHOOSE x \in S : TRUE IN ClearTimers(ClearTimer(loops, T, how), S \ {T}, how)

stopAllFun ==
  LET hit == {c \in Threads : funThreads[c] # NoLoop /\ fObj[funThreads[c]].interval # NoLoop}
      loops == TidyLoops(ClearTimers(fLoops, {fObj[funThreads[c]].interval : c \in hit}, "cleared"))
      table == [c \in Threads |-> IF c \in hit THEN NoLoop ELSE funThreads[c]]
  IN
  /\ fLoops' = loops
  /\ funThreads' = table
  /\ fObj' = TidyObjs(fObj, loops, table)
  /\ funActive' = FALSE
  /\ result' = [NoResult EXCEPT !.op = "stopAllFun", !.success = TRUE,
                                !.count = Cardinality(hit)]
  /\ notice' = NoNotice
  /\ UNCHANGED <<now, late, configAdmins, configFile, engineVars, pipeVars, fStop>>

\* stopfun.emergencyStop(api, bot, reason): stopAllFun, whose promise is
\* already settled when it is awaited, then the notice to every key that
\* bot.funThreads has at that moment.  Nothing but the sends happens in the
\* awaits of that loop, and a send that fails is caught: the call returns
\* stoppedCount in count and the conversations it notified in notified;
\* notice is the last notice it sent.
emergencyStop ==
  LET hit == {c \in Threads : funThreads[c] # NoLoop /\ fObj[funThreads[c]].interval # NoLoop}
      loops == TidyLoops(ClearTimers(fLoops, {fObj[funThreads[c]].interval : c \in hit}, "cleared"))
      table == [c \in Threads |-> IF c \in hit THEN NoLoop ELSE funThreads[c]]
      threads == {c \in Threads : table[c] # NoLoop}
  IN
  /\ fLoops' = loops
  /\ funThreads' = table
  /\ fObj' = TidyObjs(fObj, loops, table)
  /\ funActive' = FALSE
  /\ result' = [NoResult EXCEPT !.op = "emergencyStop", !.success = TRUE,
                                !.count = Cardinality(hit), !.notified = threads]
  /\ IF threads = {} THEN notice' = NoNotice
     ELSE \E c \in threads : notice' = Reply(c, "emergencyStop")
  /\ UNCHANGED <<now, late, configAdmins, configFile, engineVars, pipeVars, fStop>>

(***************************************************************************)
(* guard (src/src/secure/guard.js) and RateLimiter                         *)
(* (src/src/utils/rateLimiter.js)                                          *)
(***************************************************************************)

Users == {"owner1", "admin1", "user1"}

\* The id whose hash owner.lock holds, and config.admins as config.json has
\* it when the bot is loaded.
Owner == "owner1"
admins == <<"admin1">>

includes(list, x) == \E i \in 1..Len(list) : list[i] = x

\* A sender id that is absent (undefined or null), and ids that are present
\* but are not the id of an account: the empty string and one with a letter.
\* The ids of the accounts are strings of digits.
Missing == "<missing>"
Malformed == {"", "12a"}
GuardIds == Users \cup Malformed \cup {Missing}
isNumericId(id) == id \in Users

\* hashUid(uid): the digest of uid.toString(), written as a term over the id.
hashUid(uid) == "sha256(" \o uid \o ")"

\* owner.lock as readFileSync and JSON.parse find it: the committed record,
\* a file that cannot be read, a file that is not JSON, a record without
\* ownerHash.
LockStates == {"intact", "unreadable", "garbled", "empty"}
ownerHash(lock) == IF lock = "intact" THEN hashUid(Owner) ELSE "undefined"

\* The body of the try of verifyOwner: readFileSync, JSON.parse and
\* uid.toString() may throw.
verifyOwner_try(userId, lock) ==
  IF lock \in {"unreadable", "garbled"} \/ userId = Missing
  THEN [threw |-> TRUE, value |-> FALSE]
  ELSE [threw |-> FALSE, value |-> ownerHash(lock) = hashUid(userId)]

verifyOwner_NoCatch(userId, lock) == verifyOwner_try(userId, lock)

verifyOwner(userId, lock) ==
  IF verifyOwner_try(userId, lock).threw
  THEN [threw |-> FALSE, value |-> FALSE]
  ELSE verifyOwner_try(userId, lock)

\* The roles of a sender while owner.lock holds the committed record.
isOwner(userId) == verifyOwner(userId, "intact").value
isAdmin(userId) == includes(configAdmins, userId)
isUser(userId) == ~isOwner(userId) /\ ~isAdmin(userId)

\* guard.isOwner(userId), called with owner.lock in any of its conditions.
guard_isOwner(userId, lock) ==
  /\ result' = [NoResult EXCEPT !.op = "isOwner", !.key = userId, !.lock = lock,
                                !.success = verifyOwner(userId, lock).value,
                                !.code = IF verifyOwner(userId, lock).threw
                                         THEN "threw" ELSE "returned"]
  /\ notice' = NoNotice
  /\ UNCHANGED <<now, late, configAdmins, configFile, engineVars, funVars, pipeVars>>

\* The owner commands addadmin and removeadmin (src/unnamed/part_000),
\* called directly with event.senderID = userId and args[0] = arg.
\* requireOwner throws unless isOwner holds; writeFileSync may throw after
\* config.admins has been changed.
indexOf(list, x) ==
  IF includes(list, x)
  THEN CHOOSE i \in 1..Len(list) : list[i] = x /\ \A j \in 1..(i - 1) : list[j] # x
  ELSE 0 - 1

\* guard.requireOwner(userId) returns (TRUE) or throws (FALSE).
requireOwner_Open(userId, lock) == TRUE

requireOwner(userId, lock) == verifyOwner(userId, lock).value

AdminOutcome(op, userId, arg, lock, code) ==
  [NoResult EXCEPT !.op = op, !.key = userId, !.thread = arg, !.lock = lock, !.code = code]

addadmin(c, userId, arg, lock, written) ==
  /\ IF ~requireOwner(userId, lock)
     THEN /\ result' = AdminOutcome("addadmin", userId, arg, lock, "Owner access required.")
          /\ notice' = NoNotice
          /\ UNCHANGED <<configAdmins, configFile>>
     ELSE IF arg \in {Missing, ""}
     THEN /\ result' = AdminOutcome("addadmin", userId, arg, lock, "usage")
          /\ notice' = Reply(c, "usage")
          /\ UNCHANGED <<configAdmins, configFile>>
     ELSE IF ~isNumericId(arg)
     THEN /\ result' = AdminOutcome("addadmin", userId, arg, lock, "invalid")
          /\ notice' = Reply(c, "invalid user id")
          /\ UNCHANGED <<configAdmins, configFile>>
     ELSE IF includes(configAdmins, arg)
     THEN /\ result' = AdminOutcome("addadmin", userId, arg, lock, "already")
          /\ notice' = Reply(c, "already an admin")
          /\ UNCHANGED <<configAdmins, configFile>>
     ELSE /\ configAdmins' = Append(configAdmins, arg)
          /\ configFile' = IF written THEN Append(configAdmins, arg) ELSE configFile
          /\ result' = AdminOutcome("addadmin", userId, arg, lock,
                                     IF written THEN "added" ELSE "write failed")
          /\ notice' = IF written THEN Reply(c, "added") ELSE NoNotice
  /\ UNCHANGED <<now, late, engineVars, funVars, pipeVars>>

removeadmin(c, userId, arg, lock, written) ==
  /\ IF ~requireOwner(userId, lock)
     THEN /\ result' = AdminOutcome("removeadmin", userId, arg, lock, "Owner access required.")
          /\ notice' = NoNotice
          /\ UNCHANGED <<configAdmins, configFile>>
     ELSE IF arg \in {Missing, ""}
     THEN /\ result' = AdminOutcome("removeadmin", userId, arg, lock, "usage")
          /\ notice' = Reply(c, "usage")
          /\ UNCHANGED <<configAdmins, configFile>>
     ELSE IF indexOf(configAdmins, arg) = 0 - 1
     THEN /\ result' = AdminOutcome("removeadmin", userId, arg, lock, "not an admin")
          /\ notice' = Reply(c, "not an admin")
          /\ UNCHANGED <<configAdmins, configFile>>
     ELSE /\ configAdmins' = RemoveAt(configAdmins, indexOf(configAdmins, arg))
          /\ configFile' = IF written
                           THEN RemoveAt(configAdmins, indexOf(configAdmins, arg))
                           ELSE configFile
          /\ result' = AdminOutcome("removeadmin", userId, arg, lock,
                                     IF written THEN "removed" ELSE "write failed")
          /\ notice' = IF written THEN Reply(c, "removed") ELSE NoNotice
  /\ UNCHANGED <<now, late, engineVars, funVars, pipeVars>>

\* global.funIntervals: the table the owner command emergencystop clears.
\* It is created empty when the bot starts and no start path of a fun loop
\* puts its timer into it; its handles are written <<table, closure>>.
funIntervals == {}

\* The owner command emergencystop (src/unnamed/part_000), called directly
\* with event.senderID = userId and event.threadID = c.
emergencystop(c, userId) ==
  /\ IF ~requireOwner(userId, "intact")
     THEN /\ result' = AdminOutcome("emergencystop", userId, c, "intact",
                                     "Owner access required.")
          /\ notice' = NoNotice
          /\ UNCHANGED <<eLoops, fLoops>>
     ELSE /\ eLoops' = [L \in LoopIds |->
                          IF <<"activeFuns", L>> \in funIntervals
                          THEN ClearInterval(eLoops, L, "cleared")[L] ELSE eLoops[L]]
          /\ fLoops' = ClearTimers(fLoops, {L \in LoopIds : <<"funThreads", L>> \in funIntervals},
                                   "cleared")
          /\ result' = AdminOutcome("emergencystop", userId, c, "intact", "stopped")
          /\ notice' = Reply(c, "emergencyStop")
  /\ UNCHANGED <<now, late, configAdmins, configFile, activeFuns, funThreads, fObj, fStop,
                 funActive, pipeVars>>

\* The first argument of a command as it appears inside a template string.
ArgTypes == {"murgi", "undefined"}

\* The keys built by checkUserCommand, checkThreadMessage, checkFunCommand
\* and checkAdminAction, and the keys of direct calls of check.
UserCmdKey(userId) == "user:cmd:" \o userId
ThreadMsgKey(threadId) == "thread:msg:" \o threadId
FunKey(userId, funType) == "user:fun:" \o userId \o ":" \o funType
AdminKey(userId) == "user:admin:" \o userId
DirectKeys == {"k1"}
RateKeys ==
  {UserCmdKey(u) : u \in Users} \cup {ThreadMsgKey(t) : t \in Threads}
  \cup {FunKey(u, ft) : u \in Users, ft \in ArgTypes}
  \cup {AdminKey(u) : u \in Users} \cup DirectKeys

\* this.limits with no key set ("this.limits.get(key) || []").
NoLimits == [k \in RateKeys |-> <<>>]

\* check(key, limit, windowMs) on the table lim: whether it admits, and the
\* table it leaves.
check_WindowInclusive(lim, key, limit, windowMs) ==
  LET validLimits == SelectSeq(lim[key], LAMBDA time : now - time <= windowMs) IN
  IF Len(validLimits) >= limit
  THEN [ok |-> FALSE, limits |-> lim]
  ELSE [ok |-> TRUE, limits |-> [lim EXCEPT ![key] = Append(validLimits, now)]]

check_Unlimited(lim, key, limit, windowMs) ==
  [ok |-> TRUE,
   limits |-> [lim EXCEPT ![key] =
                 Append(SelectSeq(lim[key], LAMBDA time : now - time < windowMs), now)]]

check(lim, key, limit, windowMs) ==
  LET validLimits == SelectSeq(lim[key], LAMBDA time : now - time < windowMs) IN
  IF Len(validLimits) >= limit
  THEN [ok |-> FALSE, limits |-> lim]
  ELSE [ok |-> TRUE, limits |-> [lim EXCEPT ![key] = Append(validLimits, now)]]

checkUserCommand(lim, userId) == check(lim, UserCmdKey(userId), UserLimit, WindowMs)
checkThreadMessage(lim, threadId) == check(lim, ThreadMsgKey(threadId), ThreadLimit, WindowMs)
checkFunCommand(lim, userId, funType) == check(lim, FunKey(userId, funType), FunLimit, WindowMs)
checkAdminAction(lim, userId) == check(lim, AdminKey(userId), AdminLimit, WindowMs)

\* A direct call of check(key, limit, windowMs).
call_check(key, limit, windowMs) ==
  LET r == check(limits, key, limit, windowMs) IN
  /\ limits' = r.limits
  /\ result' = [NoResult EXCEPT !.op = "check", !.key = key, !.success = r.ok,
                                !.limit = limit]
  /\ notice' = NoNotice
  /\ UNCHANGED <<now, late, configAdmins, configFile, engineVars, funVars, ctx, cache, audit, served, invoked>>

\* A call of checkFunCommand(userId, funType).
call_checkFunCommand(userId, funType) ==
  LET r == checkFunCommand(limits, userId, funType) IN
  /\ limits' = r.limits
  /\ result' = [NoResult EXCEPT !.op = "check", !.key = FunKey(userId, funType),
                                !.success = r.ok, !.limit = FunLimit]
  /\ notice' = NoNotice
  /\ UNCHANGED <<now, late, configAdmins, configFile, engineVars, funVars, ctx, cache, audit, served, invoked>>

\* cleanup(): the sweep of the entries older than an hour; a key left with no
\* entry is deleted.
Swept(lim) ==
  [k \in RateKeys |-> SelectSeq(lim[k], LAMBDA time : time > now - CleanupAgeMs)]

cleanup ==
  /\ limits' = Swept(limits)
  /\ result' = NoResult
  /\ notice' = NoNotice
  /\ UNCHANGED <<now, late, configAdmins, configFile, engineVars, funVars, ctx, cache, audit, served, invoked>>

(***************************************************************************)
(* CommandProcessor (src/src/middleware/commandProcessor.js) and           *)
(* Validator.isValidCommandInput (src/src/utils/stats.js)                  *)
(***************************************************************************)

\* The inputs of process: command names, argument lists, sender and thread
\* ids.  "" is a missing id or an empty word.
Commands == {"startfun", "stopfun", "emergencystop", "help", "info", "murgi", "frobnicate", ""}
ArgLists == {<<>>, <<"murgi">>, <<"">>, <<"<script>">>}
Senders == Users \cup {""}
Places == {"t1", ""}

\* The inputs above that match one of the maliciousPatterns.
MaliciousInputs == {"<script>"}

isValidCommandInput(input, minLength, maxLength) ==
  /\ input # ""
  /\ Len(input) >= minLength
  /\ Len(input) <= maxLength
  /\ input \notin MaliciousInputs

\* The replies of the stages (without their emoji).
InvalidName == "Invalid command name"
InvalidArguments == "Invalid command arguments"
InvalidContext == "Invalid message context"
UserRateExceeded == "Rate limit exceeded. Please wait a moment."
ThreadRateExceeded == "Too many messages in this thread. Please slow down."
FunRateExceeded == "Too many fun commands. Please wait before starting another."
AdminRateExceeded == "Admin action rate limit exceeded."
OwnerRequired == "Owner access required for this command."
AdminRequired == "Admin access required for this command."
FunAdminRequired == "Admin/Owner access required for fun commands."
UnknownCategory == "Unknown command category."
NotFound == "Command not found. Use !help for available commands."
Escaped == "exception thrown to the caller"
ErrorReply == "An error occurred while processing your command."
ErrorReplyDebug == "An error occurred while processing your command. Debug: message"

\* this.middlewares, in the order of the constructor.
middlewares_RateFirst ==
  <<"checkRateLimit", "validateInput", "checkPermissions", "logCommand", "executeCommand">>

middlewares ==
  <<"validateInput", "checkRateLimit", "checkPermissions", "logCommand", "executeCommand">>

ownerCommands == {"emergencystop", "shutdown", "addadmin", "removeadmin", "diagnostics",
                  "reloadconfig", "execute", "backup", "cleanup"}
adminCommands == {"startfun", "stopfun", "managegroups", "editadminphoto", "updatefun"}
funCommands == {"startfun", "stopfun"}
userCommands == {"help", "info", "stats"}

getCommandCategory_OpenDefault(command) ==
  IF command \in ownerCommands THEN "owner"
  ELSE IF command \in adminCommands THEN "admin"
  ELSE IF command \in funCommands THEN "fun"
  ELSE "user"

getCommandCategory(command) ==
  IF command \in ownerCommands THEN "owner"
  ELSE IF command \in adminCommands THEN "admin"
  ELSE IF command \in funCommands THEN "fun"
  ELSE IF command \in userCommands THEN "user"
  ELSE "unknown"

\* getCommandHandler(command): the commands for which require finds a module.
Handlers == {"startfun", "stopfun", "emergencystop", "help", "murgi"}

shouldCacheCommand_Any(command) == TRUE

shouldCacheCommand(command) == command \in {"help", "info", "stats"}
shouldSkipCache(command) == command \in {"startfun", "stopfun", "execute", "emergencystop"}

\* "command.startsWith('startfun')", on the command names above.
startsWithStartfun(command) == command \in {"startfun"}

\* args[0] inside a template string.
FirstArg(args) == IF Len(args) > 0 THEN args[1] ELSE "undefined"

\* The context of process.  pc: "idle" (no invocation), "loop" (in the for
\* loop, before the test of shouldContinue), "handler" (executeCommand awaits
\* the handler).  next: the index of the next middleware.  trace (history):
\* the middlewares that were called.
NoCtx == [pc |-> "idle", next |-> 0, command |-> "", args |-> <<>>, userId |-> "",
          threadId |-> "", shouldContinue |-> FALSE, response |-> "null", trace |-> <<>>]
NoCall == [command |-> "none", userId |-> "none"]

Runs_IgnoreStop(name) ==
  /\ ctx.pc = "loop"
  /\ ctx.next \in 1..Len(middlewares)
  /\ middlewares[ctx.next] = name

Runs(name) ==
  /\ ctx.pc = "loop"
  /\ ctx.shouldContinue
  /\ ctx.next \in 1..Len(middlewares)
  /\ middlewares[ctx.next] = name

Ran(c, name) == [c EXCEPT !.next = @ + 1, !.trace = Append(@, name)]
Reject(c, name, response) ==
  [Ran(c, name) EXCEPT !.shouldContinue = FALSE, !.response = response]

\* handleError(context)
handleError_AlwaysDebug(c) == ErrorReplyDebug

handleError(c) ==
  IF isAdmin(c.userId) \/ isOwner(c.userId) THEN ErrorReplyDebug ELSE ErrorReply

\* process(api, event, command, args) up to the first middleware.
process(command, args, userId, threadId) ==
  /\ ctx.pc = "idle"
  /\ served < MaxCommands
  /\ ctx' = [NoCtx EXCEPT !.pc = "loop", !.next = 1, !.command = command, !.args = args,
                          !.userId = userId, !.threadId = threadId,
                          !.shouldContinue = TRUE]
  /\ served' = served + 1
  /\ invoked' = NoCall
  /\ result' = NoResult
  /\ notice' = NoNotice
  /\ UNCHANGED <<now, late, configAdmins, configFile, engineVars, funVars, limits, cache, audit>>

\* The loop of process ends (break, or no middleware left): "return context.response".
process_return ==
  /\ ctx.pc = "loop"
  /\ ~ctx.shouldContinue \/ ctx.next > Len(middlewares)
  /\ result' = [NoResult EXCEPT !.op = "process", !.thread = ctx.threadId,
                                !.success = TRUE, !.code = ctx.response]
  /\ ctx' = NoCtx
  /\ invoked' = NoCall
  /\ notice' = NoNotice
  /\ UNCHANGED <<now, late, configAdmins, configFile, engineVars, funVars, limits, cache, audit, served>>

\* The catch of process: "return this.handleError(context)".
\* The result keeps the sender and the number of middlewares that were called.
\* logger.error, which the catch and handleError call outside any try, appends
\* to the log file: when the write fails the exception leaves process.
Caught(escapes) ==
  /\ result' = [NoResult EXCEPT !.op = "process", !.thread = ctx.threadId,
                                !.key = ctx.userId, !.count = Len(ctx.trace),
                                !.code = IF escapes THEN Escaped ELSE handleError(ctx)]
  /\ ctx' = NoCtx

validateInput ==
  /\ Runs("validateInput")
  /\ ctx' = IF ~isValidCommandInput(ctx.command, 1, 50)
            THEN Reject(ctx, "validateInput", InvalidName)
            ELSE IF \E i \in 1..Len(ctx.args) : ~isValidCommandInput(ctx.args[i], 0, 500)
            THEN Reject(ctx, "validateInput", InvalidArguments)
            ELSE IF ctx.threadId = "" \/ ctx.userId = ""
            THEN Reject(ctx, "validateInput", InvalidContext)
            ELSE Ran(ctx, "validateInput")
  /\ invoked' = NoCall
  /\ result' = NoResult
  /\ notice' = NoNotice
  /\ UNCHANGED <<now, late, configAdmins, configFile, engineVars, funVars, limits, cache, audit, served>>

\* The four checks of checkRateLimit in their order; each stops at its rejection.
RateOutcome(c) ==
  LET user == checkUserCommand(limits, c.userId)
      thread == checkThreadMessage(user.limits, c.threadId)
      fun == IF startsWithStartfun(c.command)
             THEN checkFunCommand(thread.limits, c.userId, FirstArg(c.args))
             ELSE [ok |-> TRUE, limits |-> thread.limits]
      admin == IF isAdmin(c.userId) /\ ~isOwner(c.userId)
               THEN checkAdminAction(fun.limits, c.userId)
               ELSE [ok |-> TRUE, limits |-> fun.limits]
  IN IF ~user.ok THEN [limits |-> user.limits, response |-> UserRateExceeded]
     ELSE IF ~thread.ok THEN [limits |-> thread.limits, response |-> ThreadRateExceeded]
     ELSE IF ~fun.ok THEN [limits |-> fun.limits, response |-> FunRateExceeded]
     ELSE IF ~admin.ok THEN [limits |-> admin.limits, response |-> AdminRateExceeded]
     ELSE [limits |-> admin.limits, response |-> "null"]

checkRateLimit ==
  /\ Runs("checkRateLimit")
  /\ ctx.userId \in Users /\ ctx.threadId \in Threads
  /\ FirstArg(ctx.args) \in ArgTypes
  /\ LET r == RateOutcome(ctx) IN
       /\ limits' = r.limits
       /\ ctx' = IF r.response = "null" THEN Ran(ctx, "checkRateLimit")
                 ELSE Reject(ctx, "checkRateLimit", r.response)
  /\ invoked' = NoCall
  /\ result' = NoResult
  /\ notice' = NoNotice
  /\ UNCHANGED <<now, late, configAdmins, configFile, engineVars, funVars, cache, audit, served>>

checkPermissions_AdminOpen ==
  /\ Runs("checkPermissions")
  /\ LET category == getCommandCategory(ctx.command) IN
     ctx' = IF category = "owner" /\ ~isOwner(ctx.userId)
            THEN Reject(ctx, "checkPermissions", OwnerRequired)
            ELSE IF category = "fun" /\ ~isAdmin(ctx.userId) /\ ~isOwner(ctx.userId)
            THEN Reject(ctx, "checkPermissions", FunAdminRequired)
            ELSE IF category = "unknown"
            THEN Reject(ctx, "checkPermissions", UnknownCategory)
            ELSE Ran(ctx, "checkPermissions")
  /\ invoked' = NoCall
  /\ result' = NoResult
  /\ notice' = NoNotice
  /\ UNCHANGED <<now, late, configAdmins, configFile, engineVars, funVars, limits, cache, audit, served>>

checkPermissions ==
  /\ Runs("checkPermissions")
  /\ LET category == getCommandCategory(ctx.command) IN
     ctx' = IF category = "owner" /\ ~isOwner(ctx.userId)
            THEN Reject(ctx, "checkPermissions", OwnerRequired)
            ELSE IF category = "admin" /\ ~isAdmin(ctx.userId) /\ ~isOwner(ctx.userId)
            THEN Reject(ctx, "checkPermissions", AdminRequired)
            ELSE IF category = "fun" /\ ~isAdmin(ctx.userId) /\ ~isOwner(ctx.userId)
            THEN Reject(ctx, "checkPermissions", FunAdminRequired)
            ELSE IF category = "unknown"
            THEN Reject(ctx, "checkPermissions", UnknownCategory)
            ELSE Ran(ctx, "checkPermissions")
  /\ invoked' = NoCall
  /\ result' = NoResult
  /\ notice' = NoNotice
  /\ UNCHANGED <<now, late, configAdmins, configFile, engineVars, funVars, limits, cache, audit, served>>

\* logCommand: logger.command appends the line to the log file, then
\* stats.recordCommand and stats.recordFunUsage rewrite the statistics file.
\* Each of them can throw (file system; recordCommand also when the "users"
\* field it reads back is no Set): the exception ends process in its catch.
logCommand ==
  /\ Runs("logCommand")
  /\ \E logged \in BOOLEAN, threw \in BOOLEAN :
       /\ logged \/ threw
       /\ audit' = IF logged THEN audit + 1 ELSE audit
       /\ IF threw
          THEN \E escapes \in BOOLEAN : Caught(escapes)
          ELSE /\ ctx' = Ran(ctx, "logCommand")
               /\ result' = NoResult
  /\ invoked' = NoCall
  /\ notice' = NoNotice
  /\ UNCHANGED <<now, late, configAdmins, configFile, engineVars, funVars, limits, cache, served>>

\* The methods of the logger object (src/src/utils/logger.js).
LoggerMethods == {"log", "info", "error", "warn", "command"}

\* The entry of node-cache for the key made of command, args and sender.
Stored(c) ==
  \E e \in cache : /\ e.command = c.command /\ e.args = c.args /\ e.userId = c.userId
                   /\ now <= e.until

\* CacheManager.get calls logger.debug inside its try, on a hit and on a miss:
\* without such a method the call throws and the catch returns undefined.
Cached(c) == Stored(c) /\ "debug" \in LoggerMethods

\* startfun.execute up to its first await, on the closures: the closures it leaves.
Begin(c, ft, u) ==
  IF funThreads[c] # NoLoop \/ ft \notin FunTypes \/ NextFreeFun(fLoops) = NoLoop
  THEN fLoops
  ELSE [fLoops EXCEPT ![NextFreeFun(fLoops)] =
          [FreeFun EXCEPT !.pc = "prep", !.thread = c, !.type = ft, !.user = u]]

\* executeCommand up to "await handler(api, event, args)".  What the handler
\* does is the business of the module that require returned: for startfun it
\* may run startfun.execute for the sender and the thread of the event.
executeCommand ==
  /\ Runs("executeCommand")
  /\ IF ctx.command \notin Handlers
     THEN /\ ctx' = Reject(ctx, "executeCommand", NotFound)
          /\ invoked' = NoCall
          /\ UNCHANGED fLoops
     ELSE IF Cached(ctx) /\ ~shouldSkipCache(ctx.command)
     THEN /\ ctx' = [Ran(ctx, "executeCommand") EXCEPT !.response = "cached result"]
          /\ invoked' = NoCall
          /\ UNCHANGED fLoops
     ELSE /\ ctx' = [Ran(ctx, "executeCommand") EXCEPT !.pc = "handler"]
          /\ invoked' = [command |-> ctx.command, userId |-> ctx.userId]
          /\ \E ran \in BOOLEAN :
               fLoops' = IF ran /\ ctx.command = "startfun"
                         THEN Begin(ctx.threadId, FirstArg(ctx.args), ctx.userId)
                         ELSE fLoops
  /\ result' = NoResult
  /\ notice' = NoNotice
  /\ UNCHANGED <<now, late, configAdmins, configFile, engineVars, funThreads, fObj, fStop, funActive,
                 limits, cache, audit, served>>

\* The handler returned: the result is cached for a minute if it is truthy
\* and the command is cacheable, and it becomes the response; then
\* logger.debug is called inside the try, whose catch rethrows to process.
handler_returns ==
  /\ ctx.pc = "handler"
  /\ \E truthy \in BOOLEAN :
       /\ cache' = IF truthy /\ shouldCacheCommand(ctx.command)
                   THEN {e \in cache : ~(/\ e.command = ctx.command /\ e.args = ctx.args
                                         /\ e.userId = ctx.userId)}
                        \cup {[command |-> ctx.command, args |-> ctx.args,
                               userId |-> ctx.userId, until |-> now + CacheTtlMs]}
                   ELSE cache
       /\ LET done == [ctx EXCEPT !.pc = "loop",
                                  !.response = IF truthy THEN "handler result" ELSE "null"]
          IN IF "debug" \in LoggerMethods
             THEN ctx' = done /\ result' = NoResult
             ELSE \E escapes \in BOOLEAN : Caught(escapes)
  /\ invoked' = NoCall
  /\ notice' = NoNotice
  /\ UNCHANGED <<now, late, configAdmins, configFile, engineVars, funVars, limits, audit, served>>

\* The handler threw: executeCommand rethrows, process ends in its catch.
handler_throws ==
  /\ ctx.pc = "handler"
  /\ \E escapes \in BOOLEAN : Caught(escapes)
  /\ invoked' = NoCall
  /\ notice' = NoNotice
  /\ UNCHANGED <<now, late, configAdmins, configFile, engineVars, funVars, limits, cache, audit, served>>

\* Time passes for the rate limiter and the cache, half a window at a time,
\* while no middleware chain is running.
rate_wait(bound) ==
  /\ ctx.pc \in {"idle", "handler"}
  /\ now < bound * WindowMs
  /\ now' = now + (WindowMs \div 2)
  /\ invoked' = NoCall
  /\ result' = NoResult
  /\ notice' = NoNotice
  /\ UNCHANGED <<late, configAdmins, configFile, engineVars, funVars, limits, ctx, cache, audit, served>>

(***************************************************************************)
(* Time and the specifications                                             *)
(***************************************************************************)

\* Time passes for FunEngine, which reads the clock.
Advance ==
  /\ now + ExpiryMs <= MaxAdvances * ExpiryMs
  /\ now' = now + ExpiryMs
  /\ result' = NoResult
  /\ notice' = NoNotice
  /\ UNCHANGED <<late, configAdmins, configFile, engineVars, funVars, pipeVars>>

\* Time passes for the fun modules, which only set timeouts: the pending
\* ones come due; a timeout that is due runs before more time passes.
fun_wait ==
  /\ \E L \in LoopIds : fLoops[L].expiry = "pending"
  /\ \A L \in LoopIds : fLoops[L].expiry = "pending" => fLoops[L].left > 0
  /\ fLoops' = [L \in LoopIds |->
                  IF fLoops[L].expiry = "pending" THEN [fLoops[L] EXCEPT !.left = 0]
                  ELSE fLoops[L]]
  /\ result' = NoResult
  /\ notice' = NoNotice
  /\ UNCHANGED <<now, late, configAdmins, configFile, engineVars, pipeVars, funThreads, fObj, fStop, funActive>>

\* The state after the modules are loaded; the rate limiter's table is set by
\* the specification.
Loaded ==
  /\ now = 0
  /\ notice = NoNotice
  /\ late = {}
  /\ result = NoResult
  /\ activeFuns = [c \in Threads |-> NoFun]
  /\ eLoops = [L \in LoopIds |-> FreeLoop]
  /\ funThreads = [c \in Threads |-> NoLoop]
  /\ fObj = [o \in LoopIds |-> NoObj]
  /\ fLoops = [L \in LoopIds |-> FreeFun]
  /\ fStop = NoStop
  /\ funActive = FALSE
  /\ ctx = NoCtx
  /\ cache = {}
  /\ audit = 0
  /\ served = 0
  /\ invoked = NoCall
  /\ configAdmins = admins
  /\ configFile = admins

Init == Loaded /\ limits = NoLimits

\* A key that has already admitted all but one of the calls of its window.
HotKeys == {[key |-> UserCmdKey("user1"), limit |-> UserLimit],
            [key |-> ThreadMsgKey("t1"), limit |-> ThreadLimit],
            [key |-> FunKey("admin1", "murgi"), limit |-> FunLimit],
            [key |-> AdminKey("admin1"), limit |-> AdminLimit]}

InitPipe ==
  /\ Loaded
  /\ \E hot \in {{}} \cup {{h} : h \in HotKeys} :
       limits = [k \in RateKeys |->
                   IF \E h \in hot : h.key = k
                   THEN [i \in 1..((CHOOSE h \in hot : h.key = k).limit - 1) |-> 0]
                   ELSE <<>>]

EngineNext ==
  \/ \E c \in Threads, ft \in EngineTypes, u \in Starters : startFun(c, ft, u)
  \/ \E c \in Threads : stopFun(c)
  \/ stopAllFuns
  \/ \E L \in LoopIds : engineTick(L)
  \/ \E L \in LoopIds, i \in 1..MaxInflight : engineTypingDone(L, i)
  \/ \E L \in LoopIds, i \in 1..MaxInflight : engineSendDone(L, i)
  \/ \E L \in LoopIds, i \in 1..MaxInflight : engineTickFail(L, i)
  \/ Advance

SpecEngine == Init /\ [][EngineNext]_vars

\* The first argument of the startfun commands sent: a loadable type and one
\* the switch of startfun does not know.
RequestedTypes == {"murgi", "bogus"}

FunNext ==
  \/ \E c \in Threads, ft \in RequestedTypes, u \in FunStarters : startfun_execute(c, ft, u)
  \/ \E L \in LoopIds : startfun_fail(L)
  \/ \E L \in LoopIds : execute_create(L)
  \/ \E L \in LoopIds : execute_arm(L)
  \/ \E L \in LoopIds : fun_tick(L, MaxSends)
  \/ \E L \in LoopIds : fun_tick_sent(L)
  \/ \E L \in LoopIds : fun_tick_slept(L)
  \/ \E L \in LoopIds : fun_tick_fail(L, "send")
  \/ \E L \in LoopIds : fun_expiry(L)
  \/ \E c \in Threads : stopfun_execute(c)
  \/ \E c \in Threads : stopfun_stop(c)
  \/ \E c \in Threads : stopfun_confirmed(c)
  \/ \E c \in Threads : stopfun_fail(c)
  \/ stopAllFun
  \/ fun_wait

SpecFun == Init /\ [][FunNext]_vars

\* FunEngine keeps its loops in its own activeFuns and the fun modules keep
\* theirs in bot.funThreads: neither reads the other's table, so the two are
\* explored side by side, one of them acting in a behaviour.
EngineIdle ==
  /\ now = 0
  /\ late = {}
  /\ activeFuns = [c \in Threads |-> NoFun]
  /\ eLoops = [L \in LoopIds |-> FreeLoop]

FunIdle ==
  /\ funThreads = [c \in Threads |-> NoLoop]
  /\ fObj = [o \in LoopIds |-> NoObj]
  /\ fLoops = [L \in LoopIds |-> FreeFun]
  /\ fStop = NoStop
  /\ funActive = FALSE

LoopsNext ==
  \/ FunIdle /\ EngineNext
  \/ EngineIdle /\ FunNext

SpecLoops == Init /\ [][LoopsNext]_vars

\* Loops of either start path, running, the owner command emergencystop and
\* stopfun.emergencyStop.
EmergencyNext ==
  \/ /\ FunIdle
     /\ \/ \E c \in Threads, ft \in EngineTypes, u \in Starters : startFun(c, ft, u)
        \/ \E L \in LoopIds : engineTick(L)
        \/ \E L \in LoopIds, i \in 1..MaxInflight : engineTypingDone(L, i)
        \/ \E L \in LoopIds, i \in 1..MaxInflight : engineSendDone(L, i)
  \/ /\ EngineIdle
     /\ \/ \E c \in Threads, u \in FunStarters : startfun_execute(c, "murgi", u)
        \/ \E L \in LoopIds : execute_create(L)
        \/ \E L \in LoopIds : execute_arm(L)
        \/ \E L \in LoopIds : fun_tick(L, MaxSends)
        \/ \E L \in LoopIds : fun_tick_sent(L)
        \/ \E L \in LoopIds : fun_tick_slept(L)
  \/ \E c \in Threads, userId \in {Owner, "admin1"} : emergencystop(c, userId)
  \/ EngineIdle /\ emergencyStop

SpecEmergency == Init /\ [][EmergencyNext]_vars

\* One murgi loop that runs long enough to reach its status message.
StatusNext ==
  \/ \E u \in FunStarters : startfun_execute("t1", "murgi", u)
  \/ \E L \in LoopIds : execute_create(L)
  \/ \E L \in LoopIds : execute_arm(L)
  \/ \E L \in LoopIds : fun_tick(L, MaxStatusSends)
  \/ \E L \in LoopIds : fun_tick_sent(L)
  \/ \E L \in LoopIds : fun_tick_slept(L)
  \/ \E L \in LoopIds : fun_tick_status_sent(L)

SpecStatus == Init /\ [][StatusNext]_vars

RateNext ==
  \/ \E key \in DirectKeys, limit \in 1..MaxLimit : call_check(key, limit, WindowMs)
  \/ \E u \in FunStarters, ft \in ArgTypes : call_checkFunCommand(u, ft)
  \/ cleanup
  \/ rate_wait(MaxWindows)

SpecRate == Init /\ [][RateNext]_vars

\* Hours pass for the rate limiter, half the age of the sweep at a time.
sweep_wait ==
  /\ now < MaxSweeps * CleanupAgeMs
  /\ now' = now + (CleanupAgeMs \div 2)
  /\ result' = NoResult
  /\ notice' = NoNotice
  /\ UNCHANGED <<late, configAdmins, configFile, engineVars, funVars, pipeVars>>

\* The windows of the direct calls of check: the one the wrappers use and one
\* longer than the age of the sweep.
SweepWindows == {WindowMs, 2 * CleanupAgeMs}

SweepNext ==
  \/ \E key \in DirectKeys, limit \in 1..MaxLimit, windowMs \in SweepWindows :
       call_check(key, limit, windowMs)
  \/ cleanup
  \/ rate_wait(MaxWindows)
  \/ sweep_wait

SpecSweep == Init /\ [][SweepNext]_vars

PipeNext ==
  \/ \E command \in Commands, args \in ArgLists, userId \in Senders, threadId \in Places :
       process(command, args, userId, threadId)
  \/ validateInput
  \/ checkRateLimit
  \/ checkPermissions
  \/ logCommand
  \/ executeCommand
  \/ handler_returns
  \/ handler_throws
  \/ process_return
  \/ \E L \in LoopIds : startfun_fail(L)
  \/ \E L \in LoopIds : execute_create(L)
  \/ \E L \in LoopIds : execute_arm(L)
  \/ rate_wait(MaxPipeWindows)

SpecPipe == InitPipe /\ [][PipeNext]_vars

\* guard and the owner commands that change config.admins, called in any
\* order by any sender.
\* The senders and first arguments of the owner commands, and owner.lock as
\* requireOwner finds it.
AdminArgs == Users \cup Malformed
AdminLocks == {"intact", "unreadable"}

GuardNext ==
  \/ \E userId \in GuardIds, lock \in LockStates : guard_isOwner(userId, lock)
  \/ \E userId \in Users, arg \in AdminArgs, lock \in AdminLocks, written \in BOOLEAN :
       addadmin("t1", userId, arg, lock, written)
  \/ \E userId \in Users, arg \in AdminArgs, lock \in AdminLocks, written \in BOOLEAN :
       removeadmin("t1", userId, arg, lock, written)

SpecGuard == Init /\ [][GuardNext]_vars

(***************************************************************************)
(* Claims about FunEngine (checked under SpecEngine)                       *)
(***************************************************************************)

LiveIn(c) == {L \in LoopIds : eLoops[L].status = "live" /\ eLoops[L].thread = c}

\* C1: a startFun for a thread that already has a state fails, makes no timer
\* and leaves the state as it was; so a thread never has more than one live
\* repeating timer, and a live timer is the one its thread's state records.
C1_OneLoopPerThread ==
  /\ [](\A c \in Threads :
          /\ Cardinality(LiveIn(c)) <= 1
          /\ \A L \in LiveIn(c) : activeFuns[c] # NoFun /\ activeFuns[c].interval = L)
  /\ [][\A c \in Threads :
          (result'.op = "startFun" /\ result'.thread = c /\ activeFuns[c] # NoFun)
          => (~result'.success /\ activeFuns' = activeFuns /\ eLoops' = eLoops)]_vars

C1_Witness ==
  /\ result.op = "startFun"
  /\ result.code = "alreadyRunning"
  /\ activeFuns[result.thread] # NoFun
  /\ LiveIn(result.thread) # {}

\* C3: once stop has returned success for a thread, no line of the stopped
\* loop is handed to api.sendMessage any more.
C3_NoSendAfterStop == late = {}

\* C10: a FunEngine loop that nobody stops is gone 5 minutes after its start.
C10_EngineAutoExpiry ==
  \A c \in Threads :
    activeFuns[c] # NoFun => now - activeFuns[c].startTime <= ExpiryMs

(***************************************************************************)
(* Claims about the startfun command path and the fun modules (SpecFun)    *)
(***************************************************************************)

TimersIn(c) == {L \in LoopIds : fLoops[L].timer = "live" /\ fLoops[L].thread = c}

\* C2: however startfun invocations for one thread interleave, the thread
\* never has two live repeating timers, and a live repeating timer is the
\* one the thread's state records in its interval field.
C2_OneTimerPerThread ==
  \A c \in Threads :
    /\ Cardinality(TimersIn(c)) <= 1
    /\ \A L \in TimersIn(c) :
         funThreads[c] # NoLoop /\ fObj[funThreads[c]].interval = L

\* C4: the timeout of a loop that the module's stop has already stopped
\* changes no state and sends no expiry notice.
C4_StopBeatsExpiry ==
  [][\A L \in LoopIds :
       (/\ fLoops[L].expiry = "pending"
        /\ fLoops[L].timer = "stopped"
        /\ fLoops'[L].expiry # "pending")
       => (notice' = NoNotice /\ funThreads' = funThreads)]_vars

\* C8: a loop never has two of its interval callbacks in flight at once.
C8_TicksSequential == \A L \in LoopIds : TicksOf(fLoops[L]) <= 1

\* C9: when the timeout of a loop that was not stopped by hand runs, it leaves
\* the thread without a state and the loop without a live repeating timer, and
\* it sends the expiry notice to the thread.
C9_IdleAfterExpiry ==
  [][\A L \in LoopIds :
       (/\ fLoops[L].expiry = "pending"
        /\ fLoops[L].timer # "stopped"
        /\ fLoops'[L].expiry # "pending")
       => (/\ funThreads'[fLoops[L].thread] = NoLoop
           /\ fLoops'[L].timer # "live"
           /\ notice' = Reply(fLoops[L].thread, "expired"))]_vars

(***************************************************************************)
(* Claims about CommandProcessor (SpecPipe) and RateLimiter (SpecRate)     *)
(***************************************************************************)

InTrace(name) == \E i \in 1..Len(ctx.trace) : ctx.trace[i] = name
Privileged == {admins[i] : i \in 1..Len(admins)} \cup {Owner}

\* The tier of a command and the senders that meet it.
MeetsTier(command, userId) ==
  IF command \in ownerCommands THEN userId = Owner
  ELSE IF command \in adminCommands \cup funCommands THEN userId \in Privileged
  ELSE TRUE

StageOrder == <<"validateInput", "checkRateLimit", "checkPermissions", "logCommand",
                "executeCommand">>
RepliesOf ==
  [validateInput |-> {InvalidName, InvalidArguments, InvalidContext},
   checkRateLimit |-> {UserRateExceeded, ThreadRateExceeded, FunRateExceeded,
                       AdminRateExceeded},
   checkPermissions |-> {OwnerRequired, AdminRequired, FunAdminRequired, UnknownCategory},
   logCommand |-> {},
   executeCommand |-> {NotFound}]
InvalidInvocation(c) ==
  \/ ~isValidCommandInput(c.command, 1, 50)
  \/ \E i \in 1..Len(c.args) : ~isValidCommandInput(c.args[i], 0, 500)
  \/ c.threadId = ""
  \/ c.userId = ""
OverUserLimit(userId) ==
  userId \in Users
  /\ Len(SelectSeq(limits[UserCmdKey(userId)], LAMBDA time : now - time < WindowMs)) >= UserLimit

\* C6: the middlewares called for an invocation are a prefix of Validate,
\* RateCheck, Authorize, Log, Execute; when one of them has rejected, it is
\* the last one called and the reply is one of its replies; an invalid
\* invocation is rejected by Validate with a validation reply, whatever the
\* rate windows hold.
C6_StageOrder ==
  /\ Len(ctx.trace) <= Len(StageOrder)
  /\ \A i \in 1..Len(ctx.trace) : ctx.trace[i] = StageOrder[i]
  /\ (ctx.pc = "loop" /\ ~ctx.shouldContinue)
     => (/\ ctx.trace # <<>>
         /\ ctx.response \in RepliesOf[ctx.trace[Len(ctx.trace)]])
  /\ (ctx.pc # "idle" /\ ctx.trace # <<>> /\ InvalidInvocation(ctx))
     => (/\ ctx.trace = <<"validateInput">>
         /\ ~ctx.shouldContinue
         /\ ctx.response \in RepliesOf.validateInput)

C6_Witness ==
  /\ ctx.pc = "loop"
  /\ ctx.trace = <<"validateInput">>
  /\ InvalidInvocation(ctx)
  /\ OverUserLimit(ctx.userId)
  /\ ctx.response = InvalidName

\* C7: a call of check admits iff fewer than limit of the key's timestamps
\* are less than windowMs old; when it admits it stores those timestamps
\* followed by the time of the call, when it rejects it stores nothing; no
\* other key changes.  (A timestamp exactly windowMs old is outside the window.)
C7_SlidingWindow ==
  [][\A key \in RateKeys :
       (result'.op = "check" /\ result'.key = key)
       => LET recent == SelectSeq(limits[key], LAMBDA time : now - time < WindowMs) IN
          /\ result'.success <=> (Len(recent) < result'.limit)
          /\ limits'[key] = IF result'.success THEN Append(recent, now) ELSE limits[key]
          /\ \A other \in RateKeys \ {key} : limits'[other] = limits[other]]_vars

\* Five calls were admitted from the empty table and a sixth one, inside the
\* window of all five, has just been rejected.
C7_Witness ==
  /\ result.op = "check"
  /\ ~result.success
  /\ result.limit = FunLimit
  /\ Len(limits[result.key]) = FunLimit
  /\ \A i \in 1..FunLimit : now - limits[result.key][i] < WindowMs

(***************************************************************************)
(* Failures, counters and round trips of the loops                         *)
(***************************************************************************)

\* C11: when a send of a loop of the fun modules rejects, the step that
\* handles it leaves the thread without a state and the loop without a live
\* repeating timer, and it reports the failure to the thread.
C11_SendFailureEndsLoop ==
  [][\A L \in LoopIds :
       (/\ fLoops'[L].ticks.send < fLoops[L].ticks.send
        /\ fLoops'[L].ticks.sleep <= fLoops[L].ticks.sleep)
       => (/\ funThreads'[fLoops[L].thread] = NoLoop
           /\ fLoops'[L].timer # "live"
           /\ notice' = Reply(fLoops[L].thread, "error"))]_vars

\* The messages a loop closure has handed to api.sendMessage so far: the
\* sends its state has counted and the sends still awaited.
HandedOver(L) == fObj[fLoops[L].ref].index + fLoops[L].ticks.send

\* C12: the k-th message a loop of the fun modules hands to api.sendMessage
\* is built from template (k - 1) mod n, n being the number of templates of its
\* type: the templates are used in order, none repeated out of turn.
C12_TemplatesInOrder ==
  [][\A L \in LoopIds :
       fLoops'[L].ticks.send > fLoops[L].ticks.send
       => notice' = [thread |-> fLoops[L].thread, kind |-> "message",
                     template |-> HandedOver(L) % funData[fLoops[L].type]]]_vars

\* The messages of engine loop L whose api.sendMessage has resolved.
Delivered(L) ==
  eLoops[L].sent - Cardinality({i \in 1..Len(eLoops[L].ticks) : eLoops[L].ticks[i].pc = "send"})

\* C13: a successful FunEngine.stopFun reports a duration that is not negative
\* and a messagesSent equal to the number of messages the loop has sent
\* successfully since its start.
C13_StopStatsCountSends ==
  [][\A c \in Threads :
       (/\ activeFuns[c] # NoFun
        /\ activeFuns'[c] = NoFun
        /\ result'.op = "stopFun")
       => (/\ result'.success
           /\ result'.duration >= 0
           /\ result'.messagesSent = Delivered(activeFuns[c].interval))]_vars

\* C14: FunEngine.startFun on an idle thread followed by stopFun with no tick
\* in between: the stop succeeds, reports a duration that is not negative and
\* zero messages, leaves no state for the thread, and the timer of the loop
\* never fires afterwards.
C14_StartThenStop ==
  [][/\ \A c \in Threads :
          (/\ activeFuns[c] # NoFun
           /\ eLoops[activeFuns[c].interval].currentIndex = 0
           /\ eLoops[activeFuns[c].interval].ticks = <<>>
           /\ result'.op = "stopFun"
           /\ result'.thread = c)
          => (/\ result'.success
              /\ result'.duration >= 0
              /\ result'.messagesSent = 0
              /\ activeFuns'[c] = NoFun
              /\ eLoops'[activeFuns[c].interval] = DeadLoop)
     /\ \A L \in LoopIds : eLoops[L] = DeadLoop => eLoops'[L] = DeadLoop]_vars

C14_Witness ==
  /\ result.op = "stopFun"
  /\ result.success
  /\ result.messagesSent = 0
  /\ now = 0
  /\ activeFuns = [c \in Threads |-> NoFun]
  /\ Cardinality({L \in LoopIds : eLoops[L] = DeadLoop}) = 1
  /\ \A L \in LoopIds : eLoops[L] \in {DeadLoop, FreeLoop}

\* C15: a stop for a thread with no loop, FunEngine.stopFun or the stop of a
\* fun module, reports failure and changes no state, timer or counter of any
\* thread; so does a second stop after a successful one.
C15_StopWithoutLoopIsNoOp ==
  [][\A c \in Threads :
       /\ (result'.op = "stopFun" /\ result'.thread = c /\ activeFuns[c] = NoFun)
          => (/\ ~result'.success
              /\ UNCHANGED <<engineVars, funVars, late, configAdmins, configFile>>)
       /\ (result'.op = "stop" /\ result'.thread = c /\ funThreads[c] = NoLoop)
          => (/\ ~result'.success
              /\ UNCHANGED <<engineVars, funThreads, fObj, fLoops, funActive, late, configAdmins, configFile>>)]_vars

\* FunEngine.stopFun has just failed on a thread without a state while the
\* other thread has a loop.
C15_Witness ==
  \E c \in Threads :
    /\ result.op = "stopFun" /\ result.thread = c /\ ~result.success
    /\ activeFuns[c] = NoFun
    /\ \E d \in Threads : activeFuns[d] # NoFun

\* The stop of a fun module has just failed on a thread whose state vanished
\* while stopfun awaited, the other thread having a loop.
C15_ModuleStopFailed ==
  \E c \in Threads :
    /\ result.op = "stop" /\ result.thread = c /\ ~result.success
    /\ funThreads[c] = NoLoop
    /\ \E d \in Threads : funThreads[d] # NoLoop

\* The types FunEngine.startFun rejects: no template set of that name is
\* loaded, or the set is empty.
Unusable(ft) == ft \notin DOMAIN funTemplates \/ funTemplates[ft] = 0

C16_UnknownTypeRejected ==
  \E c \in Threads :
    /\ result.op = "startFun" /\ result.thread = c /\ result.key = "nosuch"
    /\ result.code = "unknownType"
    /\ activeFuns[c] = NoFun

\* What FunEngine.stopAllFuns promises of the step that runs it.
EngineStopAllClean ==
  result'.op = "stopAllFuns"
  => (/\ \A c \in Threads : activeFuns'[c] = NoFun
      /\ \A L \in LoopIds : eLoops'[L].status # "live"
      /\ result'.count = Cardinality({c \in Threads : activeFuns[c] # NoFun}))

\* The same for stopAllFun of the stopfun module.
ModuleStopAllClean ==
  result'.op = "stopAllFun"
  => (/\ \A c \in Threads : funThreads'[c] = NoLoop
      /\ \A L \in LoopIds : fLoops'[L].timer # "live"
      /\ result'.count = Cardinality({c \in Threads : funThreads[c] # NoLoop}))

\* C17: when a stop-all returns, FunEngine.stopAllFuns or stopAllFun of the
\* stopfun module, no thread has a loop state or a live repeating timer, and
\* the count it returns is the number of loops that were active at the call.
C17_StopAllLeavesNothing ==
  [][EngineStopAllClean /\ ModuleStopAllClean]_vars

C17_EngineStopAll == [][EngineStopAllClean]_vars

\* Whether the sweep leaves the verdict of check(key, limit, windowMs) as it is.
SweepNeutral(key, limit, windowMs) ==
  check(Swept(limits), key, limit, windowMs).ok = check(limits, key, limit, windowMs).ok

C18_ShortWindows ==
  \A key \in DirectKeys, limit \in 1..MaxLimit :
    \A windowMs \in {w \in SweepWindows : w <= CleanupAgeMs} :
      SweepNeutral(key, limit, windowMs)

(***************************************************************************)
(* The short circuit of the middleware chain                               *)
(***************************************************************************)

\* C19: once a middleware has set shouldContinue to false, the invocation only
\* returns: no middleware runs, nothing is logged, counted or executed.  The
\* audit record is written only by an invocation that Validate, RateCheck and
\* Authorize have let through, a handler is called only after Log as well, and
\* each step of the chain runs the one middleware that is next in the order.
C19_RejectionStopsChain ==
  [][/\ (ctx.pc = "loop" /\ ~ctx.shouldContinue)
        => (/\ ctx' \in {ctx, NoCtx}
            /\ audit' = audit
            /\ limits' = limits
            /\ cache' = cache
            /\ invoked' = NoCall)
     /\ audit' # audit
        => (/\ ctx.shouldContinue
            /\ ctx.trace = SubSeq(StageOrder, 1, 3))
     /\ (invoked' # NoCall /\ ctx' # ctx)
        => (/\ ctx.shouldContinue
            /\ ctx.trace = SubSeq(StageOrder, 1, 4))
     /\ (ctx'.trace # ctx.trace /\ ctx'.trace # <<>>)
        => (/\ Len(ctx.trace) < Len(StageOrder)
            /\ ctx'.trace = Append(ctx.trace, StageOrder[Len(ctx.trace) + 1]))]_vars

\* RateCheck has rejected the second invocation after the first one was
\* logged: the audit log holds one record.
C19_Witness ==
  /\ ctx.pc = "loop"
  /\ ~ctx.shouldContinue
  /\ ctx.trace = SubSeq(StageOrder, 1, 2)
  /\ ctx.response \in RepliesOf.checkRateLimit
  /\ served = 2
  /\ audit = 1

\* The commands that getCommandCategory knows.
KnownCommands == ownerCommands \cup adminCommands \cup funCommands \cup userCommands

\* C20: a command of no known category is rejected by checkPermissions with
\* the unknown-category reply and no later middleware runs for it, whoever
\* sent it; no handler is ever called for such a command.
C20_UnknownCategoryRejected ==
  /\ (/\ ctx.pc # "idle"
      /\ ctx.command \notin KnownCommands
      /\ InTrace("checkPermissions"))
     => (/\ ~ctx.shouldContinue
         /\ ctx.response = UnknownCategory
         /\ ctx.trace = SubSeq(StageOrder, 1, 3))
  /\ invoked # NoCall => invoked.command \in KnownCommands

\* checkPermissions has rejected a command of the owner that has a module to
\* load but no category.
C20_Witness ==
  /\ ctx.pc = "loop"
  /\ ctx.command = "murgi"
  /\ ctx.command \in Handlers
  /\ ctx.userId = Owner
  /\ ctx.trace = SubSeq(StageOrder, 1, 3)
  /\ ctx.response = UnknownCategory
  /\ audit = 0

(***************************************************************************)
(* Replies, failures and the result cache of the middleware chain          *)
(***************************************************************************)

\* C21: an invocation whose command has no handler and that Validate and
\* RateCheck have let through is answered with the command-not-found reply
\* that names the help command, whoever sent it.
C21_UnknownCommandGetsHelpHint ==
  [][(/\ result'.op = "process"
      /\ result'.success
      /\ ctx.command \notin Handlers
      /\ InTrace("checkPermissions"))
     => result'.code = NotFound]_vars

\* The reply is reached for a command that has a category and no handler.
C21_NotFoundReached ==
  /\ ctx.pc = "loop"
  /\ ctx.command = "info"
  /\ ctx.response = NotFound

\* C22: the Log stage never ends the invocation: whatever happens to the
\* audit record and the counters, the step of logCommand leaves the invocation
\* running with executeCommand next, and no reply is made by it.
C22_LogFailureSwallowed ==
  [][(Runs("logCommand") /\ ctx' # ctx)
     => (/\ ctx' = Ran(ctx, "logCommand")
         /\ result'.op # "process")]_vars

Mutating == {"startfun", "stopfun", "addadmin", "removeadmin", "emergencystop",
             "shutdown", "execute"}

\* C24: executeCommand calls the handler for every invocation of a
\* state-mutating command that has one, and the result cache never holds an
\* entry of such a command.
C24_MutatingNeverCached ==
  [][/\ (/\ Runs("executeCommand")
         /\ ctx' # ctx
         /\ ctx.command \in Mutating \cap Handlers)
        => (/\ ctx'.pc = "handler"
            /\ invoked' = [command |-> ctx.command, userId |-> ctx.userId])
     /\ \A e \in cache' : e.command \notin Mutating]_vars

\* The handler of a state-mutating command has been called while the cache
\* holds the result of an earlier command.
C24_Witness ==
  /\ ctx.pc = "handler"
  /\ ctx.command \in Mutating
  /\ invoked.command = ctx.command
  /\ cache # {}

\* C25: when the handler throws and process replies, the reply is the generic
\* error message, with the detail of the error appended iff the sender is an
\* admin or the owner; no reply of the chain to any other sender carries the
\* detail.
C25_DetailOnlyForPrivileged ==
  [][/\ (ctx.pc = "handler" /\ result'.op = "process" /\ result'.code # Escaped)
        => (/\ ~result'.success
            /\ ctx' = NoCtx
            /\ result'.code = IF ctx.userId \in Privileged
                               THEN ErrorReplyDebug ELSE ErrorReply)
     /\ (result'.op = "process" /\ ctx.pc # "idle" /\ ctx.userId \notin Privileged)
        => result'.code # ErrorReplyDebug]_vars

\* The handler of a user-tier command of a user-role sender has failed and
\* the sender got the generic reply.
C25_Witness ==
  /\ result.op = "process"
  /\ result.key = "user1"
  /\ result.code = ErrorReply
  /\ result.count = Len(middlewares)
  /\ ctx = NoCtx

\* C26: every invocation of process ends with a reply to its caller, the
\* generic error reply when a stage threw, never with an exception; the handler
\* is called at most once per invocation and no middleware is called again.
C26_NoExceptionLeavesProcess ==
  [][/\ (ctx.pc # "idle" /\ ctx' = NoCtx)
        => (/\ result'.op = "process"
            /\ result'.code # Escaped
            /\ result'.success \/ result'.code \in {ErrorReply, ErrorReplyDebug})
     /\ (invoked' # NoCall /\ ctx' # ctx) => ~InTrace("executeCommand")
     /\ (ctx'.trace # ctx.trace /\ ctx'.trace # <<>>)
        => ~InTrace(ctx'.trace[Len(ctx'.trace)])]_vars

\* The same with the failures of the log file left aside: what process
\* answers when its catch can write its record.
C26_RepliesWhenLogWritable ==
  [][(ctx.pc # "idle" /\ ctx' = NoCtx /\ result'.code # Escaped)
     => (/\ result'.op = "process"
         /\ result'.success \/ result'.code \in {ErrorReply, ErrorReplyDebug})]_vars

\* The invocations C27 says Validate accepts.
Acceptable(c) ==
  /\ Len(c.command) >= 1 /\ Len(c.command) <= 50
  /\ c.command \notin MaliciousInputs
  /\ \A i \in 1..Len(c.args) : /\ Len(c.args[i]) >= 0 /\ Len(c.args[i]) <= 500
                                /\ c.args[i] \notin MaliciousInputs
  /\ c.threadId # ""
  /\ c.userId # ""

\* C27: validateInput lets an invocation through iff its name has 1 to 50
\* characters, each argument has 0 to 500 characters, the empty one included,
\* name and arguments pass the content filter and both ids are present; it
\* writes no rate window.
C27_ValidateAcceptsIff ==
  [][(Runs("validateInput") /\ ctx' # ctx)
     => (/\ ctx'.shouldContinue <=> Acceptable(ctx)
         /\ limits' = limits)]_vars

\* C28: checkRateLimit leaves the admin-action window of the sender alone
\* and never answers with the admin-action warning when the command is of the
\* user category.
C28_AdminQuotaOnlyForAdminActions ==
  [][(/\ Runs("checkRateLimit")
      /\ ctx' # ctx
      /\ getCommandCategory(ctx.command) = "user")
     => (/\ limits'[AdminKey(ctx.userId)] = limits[AdminKey(ctx.userId)]
         /\ ctx'.response # AdminRateExceeded)]_vars

\* An admin's help has been refused with the admin-action warning.
C28_HelpRefusedByAdminQuota ==
  /\ ctx.command = "help"
  /\ ctx.userId = "admin1"
  /\ ctx.response = AdminRateExceeded

(***************************************************************************)
(* Roles: guard and the owner commands (checked under SpecGuard)           *)
(***************************************************************************)

Roles(userId) ==
  {r \in {"owner", "admin", "user"} :
     \/ r = "owner" /\ isOwner(userId)
     \/ r = "admin" /\ isAdmin(userId)
     \/ r = "user" /\ isUser(userId)}

\* C29: after any sequence of addadmin and removeadmin, exactly one of
\* isOwner, isAdmin and isUser holds for every sender id.
C29_ExactlyOneRole == \A userId \in Users : Cardinality(Roles(userId)) = 1

\* The owner has been added to config.admins by addadmin.
C29_OwnerIsAdmin ==
  /\ result.op = "addadmin"
  /\ result.code = "added"
  /\ Roles(Owner) = {"owner", "admin"}

\* C30: isOwner returns to its caller in every case, and it returns true
\* only for an id whose hash is the ownerHash read from owner.lock: it
\* returns false for malformed, empty and missing ids and whenever the
\* record cannot be read.
C30_IsOwnerFalseWithoutMatch ==
  result.op = "isOwner" =>
    /\ result.code = "returned"
    /\ result.success =>
         /\ result.lock = "intact"
         /\ result.key # Missing
         /\ hashUid(result.key) = ownerHash("intact")

\* isOwner was asked about the owner while owner.lock could not be read.
C30_OwnerWithoutRecord ==
  /\ result.op = "isOwner"
  /\ result.key = Owner
  /\ result.lock = "unreadable"
  /\ ~result.success

\* isOwner was asked about a missing id while owner.lock was intact.
C30_MissingId ==
  /\ result.op = "isOwner"
  /\ result.key = Missing
  /\ result.lock = "intact"
  /\ result.code = "returned"
  /\ ~result.success

\* isOwner recognised the owner.
C30_OwnerRecognised ==
  /\ result.op = "isOwner"
  /\ result.key = Owner
  /\ result.success

AdminOps == {"addadmin", "removeadmin"}

\* C31: config.admins and the admins of config.json change only in a step
\* of addadmin or removeadmin called by the owner; called by any other
\* sender, the command throws the permission error, leaves both lists as
\* they were and sends nothing.
C31_OnlyOwnerChangesAdmins ==
  [][/\ (configAdmins' # configAdmins \/ configFile' # configFile)
          => (result'.op \in AdminOps /\ result'.key = Owner)
     /\ (result'.op \in AdminOps /\ result'.key # Owner)
          => /\ result'.code = "Owner access required."
             /\ configAdmins' = configAdmins
             /\ configFile' = configFile
             /\ notice' = NoNotice]_vars

\* An admin asked for a user to be made an admin and was refused.
C31_AdminRefused ==
  /\ result.op = "addadmin"
  /\ result.key = "admin1"
  /\ result.thread = "user1"
  /\ result.lock = "intact"
  /\ result.code = "Owner access required."
  /\ ~includes(configAdmins, "user1")

\* C38: config.admins is equal to the admins of config.json after every
\* addadmin and removeadmin, also when writing the file fails.
C38_MemoryEqualsFile == configAdmins = configFile

\* addadmin changed config.admins, failed to write config.json and sent
\* nothing: isAdmin holds for an id the file does not list.
C38_UnpersistedAdmin ==
  /\ result.op = "addadmin"
  /\ result.code = "write failed"
  /\ notice = NoNotice
  /\ isAdmin(result.thread)
  /\ ~includes(configFile, result.thread)

(***************************************************************************)
(* Loops that follow one another in the same conversation                  *)
(***************************************************************************)

\* The setTimeout of closure L fires in this step.
Expires(L) == fLoops[L].expiry = "pending" /\ fLoops'[L].expiry # "pending"

\* Closure L was stopped and the table holds the state of a later loop of
\* its conversation.
Superseded(L) ==
  /\ fLoops[L].pc = "armed"
  /\ fLoops[L].timer # "live"
  /\ funThreads[fLoops[L].thread] \notin {NoLoop, fLoops[L].ref}

\* C32: when the expiry timer of a stopped loop fires after a new loop was
\* started in its conversation, the state of the new loop stays in the
\* table and no expiry notice is sent.
C32_ExpiryActsOnOwnLoop ==
  [][\A L \in LoopIds :
       (Expires(L) /\ Superseded(L))
         => /\ funThreads' = funThreads
            /\ notice' = NoNotice]_vars

\* The expiry of a stopped loop has removed the state of its successor,
\* whose timer is live and no longer in the table.
C32_SuccessorDropped ==
  \E L \in LoopIds :
    /\ fLoops[L].pc = "armed"
    /\ fLoops[L].timer = "live"
    /\ funThreads[fLoops[L].thread] = NoLoop
    /\ notice = Reply(fLoops[L].thread, "expired")

\* A send of a tick of the stopped FunEngine loop L fails in this step,
\* while its conversation has a later loop.
EngineLateFailure(L) ==
  /\ eLoops[L].status = "stopped"
  /\ eLoops[L].ticks # <<>>
  /\ eLoops'[L] # eLoops[L]
  /\ notice'.kind = "error"
  /\ notice'.thread = eLoops[L].thread
  /\ activeFuns[eLoops[L].thread] # NoFun

\* A send of a tick of the stopped closure L of a fun module fails in this
\* step, while the table holds the state of a later loop of its conversation.
ModuleLateFailure(L) ==
  /\ Superseded(L)
  /\ fLoops'[L].ticks.send < fLoops[L].ticks.send
  /\ fLoops'[L].ticks.sleep <= fLoops[L].ticks.sleep

\* C33: the failure of a send of a loop that was stopped leaves the state
\* and the timer of the loop started after it in the same conversation as
\* they were.
C33_LateFailureSparesSuccessor ==
  [][/\ \A L \in LoopIds :
          EngineLateFailure(L)
            => /\ activeFuns' = activeFuns
               /\ \A K \in LoopIds \ {L} : eLoops'[K] = eLoops[K]
     /\ \A L \in LoopIds :
          ModuleLateFailure(L)
            => /\ funThreads' = funThreads
               /\ \A K \in LoopIds \ {L} : fLoops'[K].timer = fLoops[K].timer]_vars

\* The same for FunEngine alone.
C33_EngineSparesSuccessor ==
  [][\A L \in LoopIds : EngineLateFailure(L) => activeFuns' = activeFuns]_vars

\* The same for the fun modules alone.
C33_ModuleSparesSuccessor ==
  [][\A L \in LoopIds : ModuleLateFailure(L) => funThreads' = funThreads]_vars

(***************************************************************************)
(* The status message of the fun modules (checked under SpecStatus)        *)
(***************************************************************************)

\* C34: a loop with status period K has sent one status message for every
\* K messages sent: never more than iteration \div K of them, and all of
\* them once no callback is in flight, also when its ticks overlap.
C34_OneStatusPerPeriod ==
  \A L \in LoopIds :
    fLoops[L].pc = "armed" =>
      /\ fLoops[L].statuses <= fLoops[L].iteration \div StatusEvery[fLoops[L].type]
      /\ TicksOf(fLoops[L]) = 0 =>
           fLoops[L].statuses = fLoops[L].iteration \div StatusEvery[fLoops[L].type]

\* Never duplicated.
C34_NoDuplicateStatus ==
  \A L \in LoopIds :
    fLoops[L].pc = "armed" =>
      fLoops[L].statuses <= fLoops[L].iteration \div StatusEvery[fLoops[L].type]

\* Never skipped.
C34_NoSkippedStatus ==
  \A L \in LoopIds :
    (fLoops[L].pc = "armed" /\ TicksOf(fLoops[L]) = 0) =>
      fLoops[L].statuses >= fLoops[L].iteration \div StatusEvery[fLoops[L].type]

\* A loop whose ticks did not overlap has sent its status message.
C34_StatusSent ==
  \E L \in LoopIds :
    /\ fLoops[L].pc = "armed"
    /\ fLoops[L].iteration = StatusEvery[fLoops[L].type]
    /\ fLoops[L].statuses = 1

(***************************************************************************)
(* The owner command emergencystop (checked under SpecEmergency)           *)
(***************************************************************************)

LiveTimers ==
  {<<"activeFuns", L>> : L \in {K \in LoopIds : eLoops[K].status = "live"}}
  \cup {<<"funThreads", L>> : L \in {K \in LoopIds : fLoops[K].timer \in {"live", "orphan"}}}

\* C35: when the owner command emergencystop has run, no fun loop of
\* either start path has a live repeating timer.
C35_EmergencyStopKillsLoops ==
  (result.op = "emergencystop" /\ result.code = "stopped") => LiveTimers = {}

\* emergencystop has run and acknowledged while a FunEngine loop and, in
\* another run, a fun-module loop went on.
C35_EngineLoopSurvives ==
  /\ result.op = "emergencystop"
  /\ result.code = "stopped"
  /\ \E L \in LoopIds : <<"activeFuns", L>> \in LiveTimers

C35_ModuleLoopSurvives ==
  /\ result.op = "emergencystop"
  /\ result.code = "stopped"
  /\ \E L \in LoopIds : <<"funThreads", L>> \in LiveTimers

(***************************************************************************)
(* The rate windows (checked under SpecPipe and SpecSweep)                 *)
(***************************************************************************)

\* The timestamps of a window that are equal to t.
CountAt(list, t) == Cardinality({i \in 1..Len(list) : list[i] = t})

\* C36: when checkRateLimit rejects an invocation, no rate window has
\* gained a timestamp of that invocation.
C36_RejectionRecordsNothing ==
  [][(/\ Runs("checkRateLimit")
      /\ ctx' # ctx
      /\ ~ctx'.shouldContinue)
     => \A k \in RateKeys : CountAt(limits'[k], now) = CountAt(limits[k], now)]_vars

\* An invocation was refused by the quota of its conversation after the
\* window of its sender had recorded it.
C36_RefusedButRecorded ==
  /\ ctx.response = ThreadRateExceeded
  /\ ctx.trace = <<"validateInput", "checkRateLimit">>
  /\ Len(limits[UserCmdKey(ctx.userId)]) = served

(***************************************************************************)
(* bot.funActive (checked under SpecFun)                                   *)
(***************************************************************************)

\* No startfun or stopfun command is between two of its awaits.
NoCommandInFlight ==
  /\ fStop = NoStop
  /\ \A L \in LoopIds : fLoops[L].pc \notin {"prep", "announce"}

\* C37: while no start or stop is in progress, bot.funActive is true iff
\* bot.funThreads holds a state for some conversation.
C37_FunActiveAgreesWithTable ==
  NoCommandInFlight => (funActive <=> \E c \in Threads : funThreads[c] # NoLoop)

\* A loop has expired and left bot.funActive set over an empty table.
C37_ActiveOverEmptyTable ==
  /\ NoCommandInFlight
  /\ notice.kind = "expired"
  /\ funActive
  /\ \A c \in Threads : funThreads[c] = NoLoop

(***************************************************************************)
(* stopfun.emergencyStop (checked under SpecEmergency)                     *)
(***************************************************************************)

\* The conversations whose loop has a timer in its state.
WithActiveLoop ==
  {c \in Threads : funThreads[c] # NoLoop /\ fObj[funThreads[c]].interval # NoLoop}

\* C39: emergencyStop sends its notice to every conversation whose loop it
\* stopped, and returns threadsNotified equal to stoppedCount.
C39_StoppedAreNotified ==
  [][(result'.op = "emergencyStop" /\ funActive' = FALSE /\ WithActiveLoop' = {})
     => /\ WithActiveLoop \subseteq result'.notified
        /\ Cardinality(result'.notified) = result'.count]_vars

\* emergencyStop stopped a loop and notified nobody.
C39_StoppedUnnotified ==
  /\ result.op = "emergencyStop"
  /\ result.count = 1
  /\ result.notified = {}
  /\ notice = NoNotice

\* The keys that are only ever checked by checkFunCommand, with FunLimit
\* and its window.
FunKeys == {FunKey(u, ft) : u \in FunStarters, ft \in ArgTypes}

\* C40: the window of a key that is always checked with the same limit
\* never holds more timestamps than the limit, whatever checks were
\* admitted or rejected and whatever cleanup has swept.
C40_WindowWithinLimit ==
  \A k \in FunKeys : Len(limits[k]) <= FunLimit

\* A check was rejected on a full window.
C40_FullWindowRejects ==
  /\ result.op = "check"
  /\ ~result.success
  /\ result.key \in FunKeys
  /\ Len(limits[result.key]) = FunLimit
====
